---- MODULE Spec2Model ----
(***************************************************************************)
(* H2Integrate / GreenHEART: the table-driven declaration of a stage's     *)
(* inputs and outputs, the layering of default values, and the            *)
(* Performance -> Cost -> Finance stage chain of one technology.          *)
(*                                                                         *)
(* One technology is assembled from three components, one per stage.  A    *)
(* Python dict is an object: it lives in `heap` and a component holds its   *)
(* address, so that aliasing and in-place mutation are visible.            *)
(***************************************************************************)
EXTENDS Integers, Sequences, FiniteSets, TLC

(*************************** bounds of the model ***************************)
\* operations performed on the three components of the technology
MaxOps == 4
\* dict objects ever allocated
MaxDicts == 3

(******************************* values ************************************)
\* A Python value is kept by the literal that wrote it: a float, a numpy
\* array of `len` equal elements, a one-element tuple, a string, or the value
\* of a field of the stage's config object.
Float(lit) == [kind |-> "float", len |-> 1, lit |-> lit]
Zeros(n) == [kind |-> "ndarray", len |-> n, lit |-> "0.0"]
Tuple1(lit) == [kind |-> "tuple", len |-> 1, lit |-> lit]
Str(lit) == [kind |-> "str", len |-> 1, lit |-> lit]
ConfigField(f) == [kind |-> "config", len |-> 1, lit |-> f]
\* OpenMDAO's own default when add_input/add_output is given no val
OMDefault == [kind |-> "om_default", len |-> 1, lit |-> "1.0"]

Stages == {"Performance", "Cost", "Finance"}

\* A dict literal: the mapping with exactly the listed keys.
EmptyDict == [k \in {} |-> Float("0.0")]
Entry(k, v) == [x \in {k} |-> v]

\* d[key] = value for every item of `upd`, in place: keys of `upd` are
\* written, every other key of `d` is kept.
WrongWayUpdate(d, upd) ==
  [k \in DOMAIN d \cup DOMAIN upd |-> IF k \in DOMAIN d THEN d[k] ELSE upd[k]]
Update(d, upd) ==
  [k \in DOMAIN d \cup DOMAIN upd |-> IF k \in DOMAIN upd THEN upd[k] ELSE d[k]]

\* dict.get(key, default)
Get(d, k, default) == IF k \in DOMAIN d THEN d[k] ELSE default

(******************************* tables ************************************)
\* A declaration table is a list of rows whose first row is the header
\* ["type", "len", "conn", "unit", "name"]; a unit of None is "None".
Row(t, l, c, u, n) == [type |-> t, len |-> l, conn |-> c, unit |-> u, name |-> n]
Header == Row("type", 0, FALSE, "unit", "name")

PerformanceTable ==
  << Header,
     Row("in", 1, FALSE, "kg/year", "plant_capacity_kgpy"),
     Row("in", 1, FALSE, "None", "capacity_factor"),
     Row("in", 1, FALSE, "kg/kg", "co2e_emit_ratio"),
     Row("in", 1, FALSE, "kg/kg", "h2o_consume_ratio"),
     Row("in", 1, FALSE, "kg/kg", "h2_consume_ratio"),
     Row("in", 1, FALSE, "kg/kg", "co2_consume_ratio"),
     Row("in", 1, FALSE, "kW*h/kg", "elec_consume_ratio"),
     Row("out", 8760, FALSE, "kg/h", "methanol_production"),
     Row("out", 8760, FALSE, "kg/h", "co2e_emissions"),
     Row("out", 8760, FALSE, "kg/h", "h2o_consumption"),
     Row("out", 8760, FALSE, "kg/h", "h2_consumption"),
     Row("out", 8760, FALSE, "kg/h", "co2_consumption"),
     Row("out", 8760, FALSE, "kW*h/h", "elec_consumption") >>

PerformanceValues ==
  [k \in {"plant_capacity_kgpy", "capacity_factor"} |->
     IF k = "plant_capacity_kgpy" THEN Float("100000000.0") ELSE Float("0.85")]

CostTableReadsLCOM ==
  << Header,
     Row("in", 1, FALSE, "USD/kg", "LCOM"),
     Row("in", 8760, FALSE, "kg/h", "methanol_production"),
     Row("out", 1, FALSE, "USD", "CapEx") >>
CostTable ==
  << Header,
     Row("in", 1, FALSE, "USD/kg/year", "toc_kg_y"),
     Row("in", 1, FALSE, "USD/kg/year**2", "foc_kg_y^2"),
     Row("in", 1, FALSE, "USD/kg", "voc_kg"),
     Row("in", 1, FALSE, "kg/year", "plant_capacity_kgpy"),
     Row("in", 1, FALSE, "USD/kW/h", "electricity_price"),
     Row("in", 1, FALSE, "USD/kg", "hydrogen_price"),
     Row("in", 8760, FALSE, "kW*h/h", "electricity_consumption"),
     Row("in", 8760, FALSE, "kg/h", "hydrogen_consumption"),
     Row("in", 8760, FALSE, "kg/h", "methanol_production"),
     Row("out", 1, FALSE, "USD", "CapEx"),
     Row("out", 1, FALSE, "USD/year", "OpEx"),
     Row("out", 1, FALSE, "USD/year", "Fixed_OpEx"),
     Row("out", 1, FALSE, "USD/year", "Variable_OpEx") >>

CostValues == Entry("plant_capacity_kgpy", Float("100000000.0"))

FinanceTable ==
  << Header,
     Row("in", 1, FALSE, "USD", "CapEx"),
     Row("in", 1, FALSE, "USD/year", "OpEx"),
     Row("in", 1, FALSE, "USD/year", "Fixed_OpEx"),
     Row("in", 1, FALSE, "USD/year", "Variable_OpEx"),
     Row("in", 1, FALSE, "None", "tasc_toc_multiplier"),
     Row("in", 1, FALSE, "None", "fixed_charge_rate"),
     Row("in", 8760, FALSE, "kg/h", "methanol_production"),
     Row("out", 1, FALSE, "USD/kg", "LCOM"),
     Row("out", 1, FALSE, "USD/kg", "LCOM_meoh"),
     Row("out", 1, FALSE, "USD/kg", "LCOM_meoh_capex"),
     Row("out", 1, FALSE, "USD/kg", "LCOM_meoh_fopex"),
     Row("out", 1, FALSE, "USD/kg", "LCOM_meoh_vopex") >>

FinanceValues ==
  [k \in {"fixed_charge_rate", "tasc_toc_multiplier"} |->
     IF k = "fixed_charge_rate" THEN Float("0.0707") ELSE Float("1.093")]

\* The steam-methane-reforming additions (smr.Performance, smr.Cost, smr.Finance).
SMRPerformanceTable ==
  << Header,
     Row("in", 1, FALSE, "ft**3/kg", "meoh_syn_cat_consume_ratio"),
     Row("in", 1, FALSE, "ft**3/kg", "meoh_atr_cat_consume_ratio"),
     Row("in", 1, FALSE, "kg/kg", "lng_consume_ratio"),
     Row("in", 1, FALSE, "kW*h/kg", "elec_produce_ratio"),
     Row("out", 1, FALSE, "ft**3/yr", "meoh_syn_cat_consumption"),
     Row("out", 1, FALSE, "ft**3/yr", "meoh_atr_cat_consumption"),
     Row("out", 8760, FALSE, "kg/h", "lng_consumption"),
     Row("out", 8760, FALSE, "kW*h/h", "elec_production") >>

SMRPerformanceValues ==
  [k \in {"co2_emit_ratio", "h2o_consume_ratio", "h2_consume_ratio",
          "co2_consume_ratio", "elec_consume_ratio", "meoh_syn_cat_consume_ratio",
          "meoh_atr_cat_consume_ratio", "lng_consume_ratio", "elec_produce_ratio"} |->
     CASE k = "co2_emit_ratio" -> Float("1.13442")
       [] k = "h2o_consume_ratio" -> Float("2.669877132")
       [] k = "h2_consume_ratio" -> Float("0.0")
       [] k = "co2_consume_ratio" -> Float("0.0")
       [] k = "elec_consume_ratio" -> Float("0.0")
       [] k = "meoh_syn_cat_consume_ratio" -> Float("0.00000036322492251")
       [] k = "meoh_atr_cat_consume_ratio" -> Float("0.0000013078433938")
       [] k = "lng_consume_ratio" -> Float("1.61561859")
       [] OTHER -> Float("0.338415339")]

SMRCostTable ==
  << Header,
     Row("in", 1, FALSE, "ft**3/yr", "meoh_syn_cat_consumption"),
     Row("in", 1, FALSE, "ft**3/yr", "meoh_atr_cat_consumption"),
     Row("in", 8760, FALSE, "kg/h", "lng_consumption"),
     Row("in", 8760, FALSE, "kW*h/h", "elec_production"),
     Row("in", 1, FALSE, "USD/ft**3", "meoh_syn_cat_price"),
     Row("in", 1, FALSE, "USD/ft**3", "meoh_atr_cat_price"),
     Row("in", 1, FALSE, "USD/MBtu", "lng_price"),
     Row("in", 1, FALSE, "USD/kW/h", "elec_sales_price"),
     Row("out", 1, FALSE, "USD/year", "meoh_syn_cat_cost"),
     Row("out", 1, FALSE, "USD/year", "meoh_atr_cat_cost"),
     Row("out", 1, FALSE, "USD/year", "lng_cost"),
     Row("out", 1, FALSE, "USD/year", "elec_revenue") >>

SMRCostValues ==
  [k \in {"toc_kg_y", "foc_kg_y^2", "voc_kg", "meoh_syn_cat_price",
          "meoh_atr_cat_price", "lng_price", "elec_sales_price"} |->
     CASE k = "toc_kg_y" -> Float("0.782749307")
       [] k = "foc_kg_y^2" -> Float("0.020675078")
       [] k = "voc_kg" -> Float("0.012271827")
       [] k = "meoh_syn_cat_price" -> Float("615.274273")
       [] k = "meoh_atr_cat_price" -> Float("747.9768786")
       [] k = "lng_price" -> Float("4.0")
       [] OTHER -> Float("0.027498168")]

SMRFinanceTable ==
  << Header,
     Row("in", 1, FALSE, "USD/year", "meoh_syn_cat_cost"),
     Row("in", 1, FALSE, "USD/year", "meoh_atr_cat_cost"),
     Row("in", 1, FALSE, "USD/year", "lng_cost"),
     Row("in", 1, FALSE, "USD/year", "elec_revenue"),
     Row("out", 1, FALSE, "USD/kg", "LCOM_meoh_atr_cat"),
     Row("out", 1, FALSE, "USD/kg", "LCOM_meoh_syn_cat"),
     Row("out", 1, FALSE, "USD/kg", "LCOM_ng"),
     Row("out", 1, FALSE, "USD/kg", "LCOM_elec") >>

SMRFinanceValues == EmptyDict


\* Caller-side dicts and a caller-side table used to exercise declare_from_table
\* beyond the SMR additions: a row of another length, a connection-shaped row.
OverrideAB ==
  [k \in {"a", "b"} |-> IF k = "a" THEN Float("1.0") ELSE Float("2.0")]
OverrideBC ==
  [k \in {"b", "c"} |-> IF k = "b" THEN Float("3.0") ELSE Float("4.0")]
OverrideDefaults ==
  [k \in {"plant_capacity_kgpy", "tasc_toc_multiplier", "d"} |->
     CASE k = "plant_capacity_kgpy" -> Float("50000000.0")
       [] k = "tasc_toc_multiplier" -> Float("1.1")
       [] OTHER -> Float("7.0")]
ExtraTable ==
  << Header,
     Row("in", 3, FALSE, "kg", "b"),
     Row("out", 1, TRUE, "None", "c"),
     Row("out", 3, FALSE, "kg/h", "d") >>

(***************************** technologies ********************************)
\* "table": the Methanol*BaseClass components declared through
\*          declare_from_table, alone or with the SMR additions
\* "plant": the MethanolPlant*Model wrappers of methanol_plant.py
\* "smr_plant", "co2h_plant": the SMR and CO2-hydrogenation methanol classes
\* "natural_geoh2", "combined_geoh2": the geologic-hydrogen classes
Techs == {"table", "plant", "smr_plant", "co2h_plant", "natural_geoh2",
          "combined_geoh2"}
\* the conversion_tech field of the methanol plant's config
ConversionTechs == {"smr", "co2h"}

BaseTable(s) ==
  CASE s = "Performance" -> PerformanceTable
    [] s = "Cost" -> CostTable
    [] OTHER -> FinanceTable

BaseValues(s) ==
  CASE s = "Performance" -> PerformanceValues
    [] s = "Cost" -> CostValues
    [] OTHER -> FinanceValues

SMRTable(s) ==
  CASE s = "Performance" -> SMRPerformanceTable
    [] s = "Cost" -> SMRCostTable
    [] OTHER -> SMRFinanceTable

SMRValues(s) ==
  CASE s = "Performance" -> SMRPerformanceValues
    [] s = "Cost" -> SMRCostValues
    [] OTHER -> SMRFinanceValues

(***************************************************************************)
(* core/supported_models.py: the technology registry.  A module-level dict *)
(* literal, built when the module is imported; no statement under src/     *)
(* assigns to it or to one of its keys afterwards.  The components do not  *)
(* import the module: it imports them.  A dict is its items in insertion   *)
(* order; a key is written as the technology and the stage suffix it is    *)
(* made of.                                                                *)
(***************************************************************************)
Model(technology, suffix, class) ==
  [tech |-> technology, suffix |-> suffix, class |-> class]

\* lines 55-75 of h2integrate/core, 45-65 of greenheart/core: the same items
ConverterModels ==
  << Model("dummy_wind_turbine", "_performance", "DummyPlantPerformance"),
     Model("dummy_wind_turbine", "_cost", "DummyPlantCost"),
     Model("dummy_electrolyzer", "_performance",
           "DummyElectrolyzerPerformanceModel"),
     Model("dummy_electrolyzer", "_cost", "DummyElectrolyzerCostModel"),
     Model("wind_plant", "_performance", "WindPlantPerformanceModel"),
     Model("wind_plant", "_cost", "WindPlantCostModel"),
     Model("pysam_wind_plant", "_performance",
           "PYSAMWindPlantPerformanceModel"),
     Model("pysam_solar_plant", "_performance",
           "PYSAMSolarPlantPerformanceModel"),
     Model("pem_electrolyzer", "_performance", "ElectrolyzerPerformanceModel"),
     Model("pem_electrolyzer", "_cost", "ElectrolyzerCostModel"),
     Model("pem_electrolyzer", "_financial", "ElectrolyzerFinanceModel"),
     Model("eco_pem_electrolyzer", "_performance",
           "ECOElectrolyzerPerformanceModel"),
     Model("eco_pem_electrolyzer", "_cost", "ECOElectrolyzerCostModel"),
     Model("h2_storage", "", "H2Storage"),
     Model("hopp", "", "HOPPComponent"),
     Model("reverse_osmosis_desalination", "_performance",
           "ReverseOsmosisPerformanceModel"),
     Model("reverse_osmosis_desalination", "_cost", "ReverseOsmosisCostModel"),
     Model("ammonia", "_performance", "AmmoniaPerformanceModel"),
     Model("ammonia", "_cost", "AmmoniaCostModel"),
     Model("steel", "_performance", "SteelPerformanceModel") >>

SteelCost == << Model("steel", "_cost", "SteelCostAndFinancialModel") >>
SteelFinancial ==
  << Model("steel", "_financial", "SteelCostAndFinancialModel") >>

GeoH2Models ==
  << Model("combined_geoh2", "_performance", "CombinedGeoH2PerformanceModel"),
     Model("combined_geoh2", "_cost", "CombinedGeoH2CostModel"),
     Model("combined_geoh2", "_financial", "CombinedGeoH2FinanceModel"),
     Model("natural_geoh2", "_performance", "NaturalGeoH2PerformanceModel"),
     Model("natural_geoh2", "_cost", "NaturalGeoH2CostModel"),
     Model("natural_geoh2", "_financial", "NaturalGeoH2FinanceModel"),
     Model("stimulated_geoh2", "_performance",
           "StimulatedGeoH2PerformanceModel"),
     Model("stimulated_geoh2", "_cost", "StimulatedGeoH2CostModel"),
     Model("stimulated_geoh2", "_financial", "StimulatedGeoH2FinanceModel") >>

TransportAndStorageModels ==
  << Model("cable", "", "CablePerformanceModel"),
     Model("pipe", "", "PipePerformanceModel"),
     Model("combiner", "_performance", "CombinerPerformanceModel"),
     Model("hydrogen_tank", "_performance", "HydrogenTankPerformanceModel"),
     Model("hydrogen_tank", "_cost", "HydrogenTankCostModel") >>

SMRMethanolModels ==
  << Model("smr_methanol", "_performance", "MethanolPerformanceModel"),
     Model("smr_methanol", "_cost", "MethanolCostModel"),
     Model("smr_methanol", "_financial", "MethanolFinanceModel") >>

Packages == {"h2integrate", "greenheart"}

\* the registry with steel's cost-and-financial model under "steel_financial"
supported_models_dict_steel_financial(package) ==
  IF package = "h2integrate"
  THEN ConverterModels \o SteelFinancial \o GeoH2Models
       \o TransportAndStorageModels
  ELSE ConverterModels \o SteelFinancial \o TransportAndStorageModels
       \o SMRMethanolModels

\* the dict literal of core/supported_models.py
supported_models_dict(package) ==
  IF package = "h2integrate"
  THEN ConverterModels \o SteelCost \o GeoH2Models
       \o TransportAndStorageModels
  ELSE ConverterModels \o SteelCost \o TransportAndStorageModels
       \o SMRMethanolModels

\* the string a configuration looks a model up by
model_key(item) == item.tech \o item.suffix
dict_keys(d) == {model_key(d[j]) : j \in 1..Len(d)}
\* a dict literal keeps one item per key
IsDict(d) == Cardinality(dict_keys(d)) = Len(d)

StageSuffixes == {"_performance", "_cost", "_financial"}
technologies(d) == {d[j].tech : j \in 1..Len(d)}
\* key in d.keys(), d.keys() being the set ks
HasKey(ks, technology, suffix) == (technology \o suffix) \in ks

(******************************** state ************************************)
VARIABLES
  supported_models,  \* core/supported_models.py's dict (<<>>: not imported)
  tech,              \* the technology being assembled
  conversion_tech,   \* config.conversion_tech of the methanol plant
  heap,              \* the dict objects, by address 1..Len(heap)
  dec_table_inputs,  \* per component: self.dec_table_inputs (<<>>: not set)
  values,            \* per component: address of self.values (0: not set)
  dec_table,         \* per component: self.dec_table, the rows as a frame
  declared,          \* per component: the add_input/add_output calls made
  err,               \* per component: the exception that ended its last call
  phase,             \* per component: "new", "setup", "declared"
  call,              \* per component: the last declare_from_table call
  applied,           \* per component: what was merged into it since setup()
  reads,             \* per component: the names its compute reads from inputs
  writes,            \* per component: the names its compute writes to outputs
  evaluated,         \* the stages evaluated in this run, in order
  nops,              \* operations performed
  fn,                \* the function applied to numbers ("none": no function)
  inputs,            \* its arguments, by name
  outputs,           \* what it wrote or returned, by name
  outcome            \* "pending", "ok", or the exception that ended it

vars == << supported_models, tech, conversion_tech, heap, dec_table_inputs, values, dec_table,
           declared, err, phase, call, applied, reads, writes, evaluated,
           nops, fn, inputs, outputs, outcome >>

NoCall == [base |-> <<>>, add |-> <<>>, values_before |-> EmptyDict,
           add_values |-> 0, add_before |-> EmptyDict, declared_before |-> 0]

Init ==
  /\ supported_models = << >>
  /\ tech \in Techs
  /\ conversion_tech \in (IF tech = "plant" THEN ConversionTechs ELSE {"none"})
  /\ heap = <<>>
  /\ dec_table_inputs = [s \in Stages |-> <<>>]
  /\ values = [s \in Stages |-> 0]
  /\ dec_table = [s \in Stages |-> <<>>]
  /\ declared = [s \in Stages |-> <<>>]
  /\ err = [s \in Stages |-> "none"]
  /\ phase = [s \in Stages |-> "new"]
  /\ call = [s \in Stages |-> NoCall]
  /\ applied = [s \in Stages |-> <<>>]
  /\ reads = [s \in Stages |-> {}]
  /\ writes = [s \in Stages |-> {}]
  /\ evaluated = <<>>
  /\ nops = 0
  /\ fn = "none"
  /\ inputs = <<>>
  /\ outputs = <<>>
  /\ outcome = "none"

(************************** the OpenMDAO component *************************)
\* One add_input / add_output call.  `shape` 0 means no shape argument: the
\* variable then takes the shape of its value.
Slot(io, n, val, units, conn, shape) ==
  [io |-> io, name |-> n, val |-> val, units |-> units,
   shape_by_conn |-> conn, shape |-> shape]

SlotLen(slot) == IF slot.shape # 0 THEN slot.shape ELSE slot.val.len

Names(slots) == {slots[j].name : j \in 1..Len(slots)}

\* The component after one more add_input/add_output: the call is recorded;
\* OpenMDAO raises ValueError for a name that already exists, which ends the
\* calling method, so nothing is recorded after an exception.
AddVar(c, slot) ==
  IF c.err # "none" THEN c
  ELSE [declared |-> Append(c.declared, slot),
        err |-> IF slot.name \in Names(c.declared) THEN "ValueError" ELSE "none"]

add_input(c, n, val, units, conn, shape) ==
  AddVar(c, Slot("input", n, val, units, conn, shape))
add_output(c, n, val, units, conn, shape) ==
  AddVar(c, Slot("output", n, val, units, conn, shape))

(*************************** declare_from_table ****************************)
\* pd.DataFrame(table[1:], columns=table[0]): the rows after the header
DataFrame(table) == Tail(table)

\* pd.concat([dec_table, add_dec_table]) when an additional table is given
ConcatBaseOnly(base, add) == DataFrame(base)
ConcatTables(base, add) ==
  IF Len(add) > 0 THEN DataFrame(base) \o DataFrame(add) ELSE DataFrame(base)

\* the value a row is initialized with
InitialValueScalarZero(dec, vals) ==
  IF dec.name \in DOMAIN vals THEN vals[dec.name] ELSE Float("0.0")
InitialValueZeroFirst(dec, vals) ==
  IF dec.len = 1 THEN Float("0.0")
  ELSE IF dec.name \in DOMAIN vals THEN vals[dec.name] ELSE Zeros(dec.len)
InitialValue(dec, vals) ==
  IF dec.name \in DOMAIN vals THEN vals[dec.name]
  ELSE IF dec.len = 1 THEN Float("0.0") ELSE Zeros(dec.len)

\* one pass of the loop over the rows of dec_table
DeclareRow(c, dec, vals) ==
  IF dec.type = "in"
    THEN add_input(c, dec.name, InitialValue(dec, vals), dec.unit, dec.conn, 0)
  ELSE IF dec.type = "out"
    THEN add_output(c, dec.name, InitialValue(dec, vals), dec.unit, dec.conn, 0)
  ELSE c

RECURSIVE DeclareRows(_, _, _)
DeclareRows(c, rows, vals) ==
  IF rows = <<>> THEN c
  ELSE DeclareRows(DeclareRow(c, Head(rows), vals), Tail(rows), vals)

\* the dict objects after "for key, value in add_values.items():
\* values[key] = value", values being self.values itself
MergeInPlace(h, v, a) ==
  IF a # 0 /\ DOMAIN h[a] # {}
    THEN [h EXCEPT ![v] = Update(h[v], h[a])]
    ELSE h

\* The additional tables a caller passes: none, the SMR table of the stage,
\* a table of its own.
AddTables(s) == {<<>>, SMRTable(s), ExtraTable}
\* The table and the dict a caller builds to pass together: the SMR
\* additions of the stage, or a table of its own with overrides.
AddDicts(s) ==
  { << SMRTable(s), SMRValues(s) >>, << ExtraTable, OverrideAB >>,
    << ExtraTable, OverrideBC >>, << ExtraTable, OverrideDefaults >> }
\* The dicts a caller can pass that already exist: None (0) or the values of
\* a component.
HeldDicts == {0} \cup {values[t] : t \in Stages}

\* declare_from_table(add_dec_table_inputs, add_values) on component s, the
\* argument add_values being the dict at address a (0: None)
DeclareCall(s, add, a, h) ==
  LET merged == MergeInPlace(h, values[s], a)
      frame == ConcatTables(dec_table_inputs[s], add)
      c == DeclareRows([declared |-> declared[s], err |-> "none"], frame,
                       merged[values[s]])
  IN /\ heap' = merged
     /\ dec_table' = [dec_table EXCEPT ![s] = frame]
     /\ declared' = [declared EXCEPT ![s] = c.declared]
     /\ err' = [err EXCEPT ![s] = c.err]
     /\ phase' = [phase EXCEPT ![s] = "declared"]
     /\ call' = [call EXCEPT ![s] =
                   [base |-> dec_table_inputs[s], add |-> add,
                    values_before |-> h[values[s]], add_values |-> a,
                    add_before |-> IF a = 0 THEN EmptyDict ELSE h[a],
                    declared_before |-> Len(declared[s])]]
     /\ applied' = [applied EXCEPT ![s] =
                      IF a = 0 THEN @ ELSE Append(@, h[a])]
     /\ nops' = nops + 1
     /\ UNCHANGED << supported_models, fn, inputs, outputs, outcome, tech, conversion_tech, dec_table_inputs, values, reads,
                     writes, evaluated >>

\* add_values is None or the values dict of a component
declare_from_table(s) ==
  /\ tech = "table"
  /\ phase[s] # "new"
  /\ nops < MaxOps
  /\ \E add \in AddTables(s), a \in HeldDicts :
       DeclareCall(s, add, a, heap)

\* add_values is a dict the caller builds for this call
declare_from_table_new_dict(s) ==
  /\ tech = "table"
  /\ phase[s] # "new"
  /\ nops < MaxOps
  /\ Len(heap) < MaxDicts
  /\ \E arg \in AddDicts(s) :
       DeclareCall(s, arg[1], Len(heap) + 1, Append(heap, arg[2]))

(********************************* setup ***********************************)
\* "self.values = {...}": a dict literal is a new object at every execution
ValuesShared(h, d) ==
  IF Len(h) = 0 THEN [heap |-> Append(h, d), addr |-> 1] ELSE [heap |-> h, addr |-> 1]
NewDict(h, d) == [heap |-> Append(h, d), addr |-> Len(h) + 1]

\* Methanol{Performance,Cost,Finance}BaseClass.setup; OpenMDAO clears the
\* component's variables before it calls setup()
BaseSetup(s) ==
  LET n == NewDict(heap, BaseValues(s))
  IN /\ tech = "table"
     /\ nops < MaxOps
     /\ Len(heap) < MaxDicts
     /\ heap' = n.heap
     /\ values' = [values EXCEPT ![s] = n.addr]
     /\ dec_table_inputs' = [dec_table_inputs EXCEPT ![s] = BaseTable(s)]
     /\ declared' = [declared EXCEPT ![s] = <<>>]
     /\ err' = [err EXCEPT ![s] = "none"]
     /\ phase' = [phase EXCEPT ![s] = "setup"]
     /\ call' = [call EXCEPT ![s] = NoCall]
     /\ applied' = [applied EXCEPT ![s] = <<>>]
     /\ nops' = nops + 1
     /\ UNCHANGED << supported_models, fn, inputs, outputs, outcome, tech, conversion_tech, dec_table, reads, writes,
                     evaluated >>

(************************** direct declarations ****************************)
\* self.add_input(name, units=..., val=..., shape=...) and
\* self.add_output(name, units=..., shape=...) as written in a setup body
Input(n, units, val, shape) == Slot("input", n, val, units, FALSE, shape)
Output(n, units, shape) == Slot("output", n, OMDefault, units, FALSE, shape)
InputByConn(n, units) == Slot("input", n, OMDefault, units, TRUE, 0)

\* the add_input/add_output statements of a setup body, in order
RECURSIVE Declare(_, _)
Declare(c, slots) ==
  IF slots = <<>> THEN c ELSE Declare(AddVar(c, Head(slots)), Tail(slots))

NoVars == [declared |-> <<>>, err |-> "none"]

(****************** methanol_plant.py: the plant wrappers ******************)
\* the defaults MethanolPlantPerformanceModel.setup assigns for "smr"; every
\* assignment ends with a comma, so each value is a one-element tuple
PlantPerformanceSMRDefaults ==
  [k \in {"co2e_emit_ratio", "h2o_consume_ratio", "h2_consume_ratio",
          "co2_consume_ratio", "elec_consume_ratio", "meoh_syn_cat_consume_ratio",
          "meoh_atr_cat_consume_ratio", "lng_consume_ratio", "elec_produce_ratio"} |->
     CASE k = "co2e_emit_ratio" -> Tuple1("1.13442")
       [] k = "h2o_consume_ratio" -> Tuple1("2.669877132")
       [] k = "h2_consume_ratio" -> Tuple1("0.0")
       [] k = "co2_consume_ratio" -> Tuple1("0.0")
       [] k = "elec_consume_ratio" -> Tuple1("0.1")
       [] k = "meoh_syn_cat_consume_ratio" -> Tuple1("0.00000036322492251")
       [] k = "meoh_atr_cat_consume_ratio" -> Tuple1("0.0000013078433938")
       [] k = "lng_consume_ratio" -> Tuple1("1.61561859")
       [] OTHER -> Tuple1("0.338415339")]

\* the dict MethanolPlantCostModel.setup assigns for "smr"
PlantCostSMRValues ==
  [k \in {"toc_kg_y", "foc_kg_y^2", "voc_kg", "meoh_syn_cat_price",
          "meoh_atr_cat_price", "lng_price", "elec_sales_price"} |->
     CASE k = "toc_kg_y" -> Float("0.782749307")
       [] k = "foc_kg_y^2" -> Float("0.020675078")
       [] k = "voc_kg" -> Float("0.012271827")
       [] k = "meoh_syn_cat_price" -> Float("615.274273")
       [] k = "meoh_atr_cat_price" -> Float("747.9768786")
       [] k = "lng_price" -> Float("4.0")
       [] OTHER -> Float("0.027498168")]

\* the technology layer of a plant stage: what setup puts on its base defaults
TechDefaults(s, ct) ==
  IF ct = "smr" /\ s = "Performance" THEN PlantPerformanceSMRDefaults
  ELSE IF ct = "smr" /\ s = "Cost" THEN PlantCostSMRValues
  ELSE EmptyDict

\* self.config.as_dict(): every field of the stage's config class
PlantConfigs(s, ct) ==
  CASE s = "Performance" ->
         { [k \in {"conversion_tech", "plant_capacity_kgpy", "capacity_factor"} |->
              CASE k = "conversion_tech" -> Str(ct)
                [] k = "plant_capacity_kgpy" -> Float("127893196.8")
                [] OTHER -> Float(cf)] : cf \in {"0.85", "0.9"} }
    [] s = "Cost" ->
         { [k \in {"conversion_tech", "plant_capacity_kgpy"} |->
              IF k = "conversion_tech" THEN Str(ct) ELSE Float(cap)] :
              cap \in {"100000000.0", "127893196.8"} }
    [] OTHER ->
         { [k \in {"conversion_tech", "plant_capacity_kgpy", "discount_rate",
                   "tasc_toc_multiplier"} |->
              CASE k = "conversion_tech" -> Str(ct)
                [] k = "plant_capacity_kgpy" -> Float("127893196.8")
                [] k = "discount_rate" -> Float("0.0707")
                [] OTHER -> Float(m)] : m \in {"1.093", "1.1"} }

\* self.values when the declarations start: the defaults literal, the "smr"
\* defaults (assigned key by key in Performance, a new literal in Cost), then
\* every item of the config
PlantValues(s, ct, config_values) ==
  CASE s = "Performance" ->
         Update(IF ct = "smr" THEN Update(PerformanceValues, PlantPerformanceSMRDefaults)
                ELSE PerformanceValues, config_values)
    [] s = "Cost" ->
         Update(IF ct = "smr" THEN PlantCostSMRValues ELSE CostValues, config_values)
    [] OTHER -> Update(FinanceValues, config_values)

\* val=self.values.get(name, 0.0)
ValGet(vals, n) == Get(vals, n, Float("0.0"))

PlantPerformanceCalls(ct, v) ==
  << Input("plant_capacity_kgpy", "kg/year", ValGet(v, "plant_capacity_kgpy"), 0),
     Input("capacity_factor", "unitless", ValGet(v, "capacity_factor"), 0),
     Input("co2e_emit_ratio", "kg/kg", ValGet(v, "co2e_emit_ratio"), 0),
     Input("h2o_consume_ratio", "kg/kg", ValGet(v, "h2o_consume_ratio"), 0),
     Input("h2_consume_ratio", "kg/kg", ValGet(v, "h2_consume_ratio"), 0),
     Input("co2_consume_ratio", "kg/kg", ValGet(v, "co2_consume_ratio"), 0),
     Input("elec_consume_ratio", "kW*h/kg", ValGet(v, "elec_consume_ratio"), 0),
     Output("methanol_production", "kg/h", 8760),
     Output("co2e_emissions", "kg/h", 8760),
     Output("h2o_consumption", "kg/h", 8760),
     Output("h2_consumption", "kg/h", 8760),
     Output("co2_consumption", "kg/h", 8760),
     Output("elec_consumption", "kW*h/h", 8760) >> \o
  (IF ct = "smr" THEN
  << Input("meoh_syn_cat_consume_ratio", "ft**3/kg", ValGet(v, "meoh_syn_cat_consume_ratio"), 0),
     Input("meoh_atr_cat_consume_ratio", "ft**3/kg", ValGet(v, "meoh_atr_cat_consume_ratio"), 0),
     Input("lng_consume_ratio", "kg/kg", ValGet(v, "lng_consume_ratio"), 0),
     Input("elec_produce_ratio", "kW*h/kg", ValGet(v, "elec_produce_ratio"), 0),
     Output("meoh_syn_cat_consumption", "ft**3/yr", 0),
     Output("meoh_atr_cat_consumption", "ft**3/yr", 0),
     Output("lng_consumption", "kg/h", 8760),
     Output("elec_production", "kW*h/h", 8760) >>
  ELSE <<>>)

PlantCostCalls(ct, v) ==
  << Input("toc_kg_y", "USD/kg/year", ValGet(v, "toc_kg_y"), 0),
     Input("foc_kg_y^2", "USD/kg/year**2", ValGet(v, "foc_kg_y^2"), 0),
     Input("voc_kg", "USD/kg", ValGet(v, "voc_kg"), 0),
     Input("plant_capacity_kgpy", "kg/year", ValGet(v, "plant_capacity_kgpy"), 0),
     Input("electricity_price", "USD/kW/h", ValGet(v, "electricity_price"), 0),
     Input("hydrogen_price", "USD/kg", ValGet(v, "hydrogen_price"), 0),
     Input("electricity_consumption", "kW*h/h", ValGet(v, "electricity_consumption"), 8760),
     Input("hydrogen_consumption", "kg/h", ValGet(v, "hydrogen_consumption"), 8760),
     Input("methanol_production", "kg/h", ValGet(v, "methanol_production"), 8760),
     Output("CapEx", "USD", 0),
     Output("OpEx", "USD/year", 0),
     Output("Fixed_OpEx", "USD/year", 0),
     Output("Variable_OpEx", "USD/year", 0) >> \o
  (IF ct = "smr" THEN
  << Input("meoh_syn_cat_consumption", "ft**3/yr", ValGet(v, "meoh_syn_cat_consumption"), 0),
     Input("meoh_atr_cat_consumption", "ft**3/yr", ValGet(v, "meoh_atr_cat_consumption"), 0),
     Input("lng_consumption", "kg/h", ValGet(v, "lng_consumption"), 8760),
     Input("elec_production", "kW*h/h", ValGet(v, "elec_production"), 8760),
     Input("meoh_syn_cat_price", "USD/ft**3", ValGet(v, "meoh_syn_cat_price"), 0),
     Input("meoh_atr_cat_price", "USD/ft**3", ValGet(v, "meoh_atr_cat_price"), 0),
     Input("lng_price", "USD/MBtu", ValGet(v, "lng_price"), 0),
     Input("elec_sales_price", "USD/kW/h", ValGet(v, "elec_sales_price"), 0),
     Output("meoh_syn_cat_cost", "USD/year", 0),
     Output("meoh_atr_cat_cost", "USD/year", 0),
     Output("lng_cost", "USD/year", 0),
     Output("elec_revenue", "USD/year", 0) >>
  ELSE <<>>)

PlantFinanceCalls(ct, v) ==
  << Input("CapEx", "USD", ValGet(v, "CapEx"), 0),
     Input("OpEx", "USD/year", ValGet(v, "OpEx"), 0),
     Input("Fixed_OpEx", "USD/year", ValGet(v, "Fixed_OpEx"), 0),
     Input("Variable_OpEx", "USD/year", ValGet(v, "Variable_OpEx"), 0),
     Input("tasc_toc_multiplier", "None", ValGet(v, "tasc_toc_multiplier"), 0),
     Input("fixed_charge_rate", "None", ValGet(v, "fixed_charge_rate"), 0),
     Input("methanol_production", "kg/h", ValGet(v, "methanol_production"), 8760),
     Output("LCOM", "USD/kg", 0),
     Output("LCOM_meoh", "USD/kg", 0),
     Output("LCOM_meoh_capex", "USD/kg", 0),
     Output("LCOM_meoh_fopex", "USD/kg", 0),
     Output("LCOM_meoh_vopex", "USD/kg", 0) >> \o
  (IF ct = "smr" THEN
  << Input("meoh_syn_cat_cost", "USD/year", ValGet(v, "meoh_syn_cat_cost"), 0),
     Input("meoh_atr_cat_cost", "USD/year", ValGet(v, "meoh_atr_cat_cost"), 0),
     Input("lng_cost", "USD/year", ValGet(v, "lng_cost"), 0),
     Input("elec_revenue", "USD/year", ValGet(v, "elec_revenue"), 0),
     Output("LCOM_meoh_atr_cat", "USD/kg", 0),
     Output("LCOM_meoh_syn_cat", "USD/kg", 0),
     Output("LCOM_ng", "USD/kg", 0),
     Output("LCOM_elec", "USD/kg", 0) >>
  ELSE <<>>)

PlantCalls(s, ct, v) ==
  CASE s = "Performance" -> PlantPerformanceCalls(ct, v)
    [] s = "Cost" -> PlantCostCalls(ct, v)
    [] OTHER -> PlantFinanceCalls(ct, v)

(*********** smr_methanol_plant.py / co2h_methanol_plant.py ****************)
\* the statements after super().setup(); val=self.config.<field> is kept as
\* the name of the config field
SMRPlantPerformanceCalls ==
  << Input("meoh_syn_cat_consume_ratio", "ft**3/kg", ConfigField("meoh_syn_cat_consume_ratio"), 0),
     Input("meoh_atr_cat_consume_ratio", "ft**3/kg", ConfigField("meoh_atr_cat_consume_ratio"), 0),
     Input("ng_consume_ratio", "kg/kg", ConfigField("ng_consume_ratio"), 0),
     Input("elec_produce_ratio", "kW*h/kg", ConfigField("elec_produce_ratio"), 0),
     Output("meoh_syn_cat_consumption", "ft**3/yr", 0),
     Output("meoh_atr_cat_consumption", "ft**3/yr", 0),
     Output("ng_consumption", "kg/h", 8760),
     Output("electricity", "kW*h/h", 8760) >>

SMRPlantCostCalls ==
  << Input("ng_lhv", "MJ/kg", ConfigField("ng_lhv"), 0),
     Input("meoh_syn_cat_consumption", "ft**3/yr", OMDefault, 0),
     Input("meoh_atr_cat_consumption", "ft**3/yr", OMDefault, 0),
     Input("ng_consumption", "kg/h", OMDefault, 8760),
     Input("electricity", "kW*h/h", OMDefault, 8760),
     Input("meoh_syn_cat_price", "USD/ft**3", ConfigField("meoh_syn_cat_price"), 0),
     Input("meoh_atr_cat_price", "USD/ft**3", ConfigField("meoh_atr_cat_price"), 0),
     Input("ng_price", "USD/MBtu", ConfigField("ng_price"), 0),
     Output("meoh_syn_cat_cost", "USD/year", 0),
     Output("meoh_atr_cat_cost", "USD/year", 0),
     Output("ng_cost", "USD/year", 0),
     Output("elec_revenue", "USD/year", 0) >>

SMRPlantFinanceCalls ==
  << Input("meoh_syn_cat_cost", "USD/year", OMDefault, 0),
     Input("meoh_atr_cat_cost", "USD/year", OMDefault, 0),
     Input("ng_cost", "USD/year", OMDefault, 0),
     Input("elec_revenue", "USD/year", OMDefault, 0),
     Output("LCOM_meoh_atr_cat", "USD/kg", 0),
     Output("LCOM_meoh_syn_cat", "USD/kg", 0),
     Output("LCOM_ng", "USD/kg", 0),
     Output("LCOM_elec", "USD/kg", 0) >>

CO2HPlantPerformanceCalls ==
  << Input("meoh_syn_cat_consume_ratio", "ft**3/kg", ConfigField("meoh_syn_cat_consume_ratio"), 0),
     Input("ng_consume_ratio", "kg/kg", ConfigField("ng_consume_ratio"), 0),
     Input("co2_consume_ratio", "kg/kg", ConfigField("co2_consume_ratio"), 0),
     Input("h2_consume_ratio", "kg/kg", ConfigField("h2_consume_ratio"), 0),
     Input("elec_consume_ratio", "kg/kW/h", ConfigField("elec_consume_ratio"), 0),
     Output("meoh_syn_cat_consumption", "ft**3/yr", 0),
     Output("ng_consumption", "kg/h", 8760),
     Output("carbon_dioxide", "kg/h", 8760),
     Output("hydrogen", "kg/h", 8760),
     Output("electricity", "kW*h/h", 8760) >>

CO2HPlantCostCalls ==
  << Input("ng_lhv", "MJ/kg", ConfigField("ng_lhv"), 0),
     Input("meoh_syn_cat_consumption", "ft**3/yr", OMDefault, 0),
     Input("ng_consumption", "kg/h", OMDefault, 8760),
     Input("carbon_dioxide", "kg/h", OMDefault, 8760),
     Input("electricity", "kW*h/h", OMDefault, 8760),
     Input("meoh_syn_cat_price", "USD/ft**3", ConfigField("meoh_syn_cat_price"), 0),
     Input("ng_price", "USD/MBtu", ConfigField("ng_price"), 0),
     Input("co2_price", "USD/kg", ConfigField("co2_price"), 0),
     Output("meoh_syn_cat_cost", "USD/year", 0),
     Output("ng_cost", "USD/year", 0),
     Output("co2_cost", "USD/year", 0) >>

CO2HPlantFinanceCalls ==
  << Input("meoh_syn_cat_cost", "USD/year", OMDefault, 0),
     Input("ng_cost", "USD/year", OMDefault, 0),
     Input("co2_cost", "USD/year", OMDefault, 0),
     InputByConn("electricity", "kW*h/h"),
     InputByConn("hydrogen", "kg/h"),
     Input("LCOE", "USD/kW/h", OMDefault, 0),
     Input("LCOH", "USD/kg", OMDefault, 0),
     Output("LCOM_meoh_syn_cat", "USD/kg", 0),
     Output("LCOM_ng", "USD/kg", 0),
     Output("LCOM_co2", "USD/kg", 0),
     Output("LCOM_elec", "USD/kg", 0),
     Output("LCOM_h2", "USD/kg", 0) >>

SubclassCalls(t, s) ==
  CASE t = "smr_plant" /\ s = "Performance" -> SMRPlantPerformanceCalls
    [] t = "smr_plant" /\ s = "Cost" -> SMRPlantCostCalls
    [] t = "smr_plant" /\ s = "Finance" -> SMRPlantFinanceCalls
    [] t = "co2h_plant" /\ s = "Performance" -> CO2HPlantPerformanceCalls
    [] t = "co2h_plant" /\ s = "Cost" -> CO2HPlantCostCalls
    [] OTHER -> CO2HPlantFinanceCalls

(************************ geologic hydrogen ********************************)
GeoH2PerformanceCalls ==
  << Input("well_lifetime", "year", ConfigField("well_lifetime"), 0),
     Input("grain_size", "m", ConfigField("grain_size"), 0),
     Input("serp_rate", "1/sec", ConfigField("serp_rate"), 0),
     Input("caprock_depth", "m", ConfigField("caprock_depth"), 0),
     Input("borehole_depth", "m", ConfigField("borehole_depth"), 0),
     Input("inj_prod_distance", "m", ConfigField("inj_prod_distance"), 0),
     Input("site_prospectivity", "None", ConfigField("site_prospectivity"), 0),
     Input("initial_wellhead_flow", "kg/hour", ConfigField("initial_wellhead_flow"), 0),
     Input("gas_reservoir_size", "tonne", ConfigField("gas_reservoir_size"), 0),
     Input("iron_II_content", "pct", ConfigField("iron_II_content"), 0),
     Input("water_temp", "C", ConfigField("water_temp"), 0),
     Output("wellhead_h2_conc", "pct", 8760),
     Output("lifetime_wellhead_flow", "kg/hour", 8760),
     Output("hydrogen_accumulated", "kg/hour", 8760),
     Output("hydrogen_produced", "kg/hour", 8760),
     Output("hydrogen", "kg/hour", 8760) >>

GeoH2CostCalls ==
  << Input("well_lifetime", "year", ConfigField("well_lifetime"), 0),
     Input("test_drill_cost", "USD", ConfigField("test_drill_cost"), 0),
     Input("permit_fees", "USD", ConfigField("permit_fees"), 0),
     Input("acreage", "acre", ConfigField("acreage"), 0),
     Input("rights_cost", "USD/acre", ConfigField("rights_cost"), 0),
     Input("acquisition_cost", "USD", ConfigField("acquisition_cost"), 0),
     Input("completion_cost", "USD", ConfigField("completion_cost"), 0),
     Input("success_chance", "pct", ConfigField("success_chance"), 0),
     Input("fixed_opex", "USD/year", ConfigField("fixed_opex"), 0),
     Input("variable_opex", "USD/kg", ConfigField("variable_opex"), 0),
     Output("bare_capital_cost", "USD", 0),
     Output("CapEx", "USD", 0),
     Output("OpEx", "USD/year", 0),
     Output("Fixed_OpEx", "USD/year", 0),
     Output("Variable_OpEx", "USD/year", 0) >>

GeoH2FinanceCalls ==
  << Input("CapEx", "USD", Float("1.0"), 0),
     Input("OpEx", "USD/year", Float("1.0"), 0),
     Input("Fixed_OpEx", "USD/year", Float("1.0"), 0),
     Input("Variable_OpEx", "USD/year", Float("1.0"), 0),
     Input("hydrogen", "kg/h", OMDefault, 8760),
     Output("LCOH", "USD/kg", 0),
     Output("LCOH_capex", "USD/kg", 0),
     Output("LCOH_fopex", "USD/kg", 0),
     Output("LCOH_vopex", "USD/kg", 0) >>

\* NaturalGeoH2PerformanceModel.setup: the statements after super().setup()
NaturalGeoH2PerformanceCalls ==
  << Output("wellhead_h2_conc", "percent", 0),
     Output("lifetime_wellhead_flow", "kg/h", 0),
     Output("hydrogen_accumulated", "kg/h", 8760) >>

\* the setup of a geologic-hydrogen class: the base class, then the subclass
GeoH2Calls(t, s) ==
  CASE s = "Performance" ->
         GeoH2PerformanceCalls \o
           (IF t = "natural_geoh2" THEN NaturalGeoH2PerformanceCalls ELSE <<>>)
    [] s = "Cost" -> GeoH2CostCalls
    [] OTHER -> GeoH2FinanceCalls

(******************************* compute ***********************************)
\* The names a compute body subscripts: inputs[...] and outputs[...].
Access(r, w) == [reads |-> r, writes |-> w]

PlantPerformanceCompute(ct) ==
  IF ct = "smr" THEN
    Access({"plant_capacity_kgpy", "capacity_factor", "co2_consume_ratio",
            "h2o_consume_ratio", "h2_consume_ratio", "co2e_emit_ratio",
            "elec_consume_ratio", "meoh_atr_cat_consume_ratio",
            "meoh_syn_cat_consume_ratio", "lng_consume_ratio", "elec_produce_ratio"},
           {"methanol_production", "co2_consumption", "h2o_consumption",
            "h2_consumption", "co2e_emissions", "elec_consumption",
            "meoh_atr_cat_consumption", "meoh_syn_cat_consumption",
            "lng_consumption", "elec_production"})
  ELSE Access({}, {})

PlantCostCompute(ct) ==
  IF ct = "smr" THEN
    Access({"plant_capacity_kgpy", "toc_kg_y", "foc_kg_y^2", "methanol_production",
            "voc_kg", "meoh_syn_cat_consumption", "meoh_syn_cat_price",
            "meoh_atr_cat_consumption", "meoh_atr_cat_price", "lng_consumption",
            "lng_price", "elec_production", "elec_sales_price"},
           {"CapEx", "OpEx", "Fixed_OpEx", "Variable_OpEx", "meoh_syn_cat_cost",
            "meoh_atr_cat_cost", "lng_cost", "elec_revenue"})
  ELSE Access({}, {})

PlantFinanceCompute ==
  Access({"methanol_production", "CapEx", "fixed_charge_rate", "tasc_toc_multiplier",
          "Fixed_OpEx", "Variable_OpEx", "meoh_syn_cat_cost", "meoh_atr_cat_cost",
          "lng_cost", "elec_revenue"},
         {"LCOM_meoh_capex", "LCOM_meoh_fopex", "LCOM_meoh_syn_cat",
          "LCOM_meoh_atr_cat", "LCOM_meoh_vopex", "LCOM_ng", "LCOM_elec",
          "LCOM_meoh", "LCOM"})

SMRPlantPerformanceCompute ==
  Access({"plant_capacity_kgpy", "capacity_factor", "co2_consume_ratio",
          "h2o_consume_ratio", "h2_consume_ratio", "co2e_emit_ratio",
          "elec_consume_ratio", "meoh_atr_cat_consume_ratio",
          "meoh_syn_cat_consume_ratio", "ng_consume_ratio", "elec_produce_ratio"},
         {"methanol", "co2_consumption", "h2o_consumption", "h2_consumption",
          "co2e_emissions", "elec_consumption", "meoh_atr_cat_consumption",
          "meoh_syn_cat_consumption", "ng_consumption", "electricity"})

SMRPlantCostCompute ==
  Access({"plant_capacity_kgpy", "toc_kg_y", "foc_kg_y2", "methanol", "voc_kg",
          "ng_lhv", "meoh_syn_cat_consumption", "meoh_syn_cat_price",
          "meoh_atr_cat_consumption", "meoh_atr_cat_price", "ng_consumption",
          "ng_price", "electricity"},
         {"CapEx", "OpEx", "Fixed_OpEx", "Variable_OpEx", "meoh_syn_cat_cost",
          "meoh_atr_cat_cost", "ng_cost", "elec_revenue"})

SMRPlantFinanceCompute ==
  Access({"methanol", "CapEx", "fixed_charge_rate", "tasc_toc_multiplier",
          "Fixed_OpEx", "Variable_OpEx", "meoh_syn_cat_cost", "meoh_atr_cat_cost",
          "ng_cost", "elec_revenue"},
         {"LCOM_meoh_capex", "LCOM_meoh_fopex", "LCOM_meoh_syn_cat",
          "LCOM_meoh_atr_cat", "LCOM_meoh_vopex", "LCOM_ng", "LCOM_elec",
          "LCOM_meoh", "LCOM"})

CO2HPlantPerformanceCompute ==
  Access({"plant_capacity_kgpy", "capacity_factor", "co2e_emit_ratio",
          "h2o_consume_ratio", "meoh_syn_cat_consume_ratio", "ng_consume_ratio",
          "co2_consume_ratio", "h2_consume_ratio", "elec_consume_ratio"},
         {"methanol", "co2e_emissions", "h2o_consumption",
          "meoh_syn_cat_consumption", "ng_consumption", "carbon_dioxide",
          "hydrogen", "electricity"})

CO2HPlantCostCompute ==
  Access({"plant_capacity_kgpy", "toc_kg_y", "foc_kg_y2", "methanol", "voc_kg",
          "ng_lhv", "meoh_syn_cat_consumption", "meoh_syn_cat_price",
          "ng_consumption", "ng_price", "carbon_dioxide", "co2_price"},
         {"CapEx", "OpEx", "Fixed_OpEx", "Variable_OpEx", "meoh_syn_cat_cost",
          "ng_cost", "co2_cost"})

CO2HPlantFinanceCompute ==
  Access({"methanol", "LCOE", "electricity", "LCOH", "hydrogen", "CapEx",
          "fixed_charge_rate", "tasc_toc_multiplier", "Fixed_OpEx",
          "Variable_OpEx", "meoh_syn_cat_cost", "ng_cost", "co2_cost"},
         {"LCOM_elec", "LCOM_h2", "LCOM_meoh_capex", "LCOM_meoh_fopex",
          "LCOM_meoh_syn_cat", "LCOM_meoh_vopex", "LCOM_ng", "LCOM_co2",
          "LCOM_meoh", "LCOM"})

NaturalGeoH2PerformanceCompute ==
  Access({"site_prospectivity", "initial_wellhead_flow", "well_lifetime",
          "gas_reservoir_size"},
         {"wellhead_h2_conc", "lifetime_wellhead_flow", "hydrogen_accumulated",
          "hydrogen"})

CombinedGeoH2PerformanceCompute ==
  Access({"site_prospectivity", "initial_wellhead_flow", "well_lifetime",
          "gas_reservoir_size", "grain_size", "serp_rate", "borehole_depth",
          "caprock_depth", "inj_prod_distance", "reaction_zone_width",
          "bulk_density", "iron_II_conc"},
         {"wellhead_h2_conc", "lifetime_wellhead_flow", "hydrogen_accumulated",
          "hydrogen_produced", "hydrogen"})

\* the Cost and Finance bodies are the same in the Natural and Combined files
GeoH2CostCompute ==
  Access({"test_drill_cost", "permit_fees", "acreage", "rights_cost",
          "completion_cost", "success_chance", "fixed_opex", "variable_opex",
          "hydrogen"},
         {"bare_capital_cost", "Fixed_OpEx", "Variable_OpEx", "OpEx", "CapEx"})

GeoH2FinanceCompute ==
  Access({"well_lifetime", "CapEx", "Fixed_OpEx", "Variable_OpEx", "hydrogen"},
         {"LCOH", "LCOH_capex", "LCOH_fopex", "LCOH_vopex"})

ComputeAccess(t, s, ct) ==
  CASE t = "plant" /\ s = "Performance" -> PlantPerformanceCompute(ct)
    [] t = "plant" /\ s = "Cost" -> PlantCostCompute(ct)
    [] t = "plant" /\ s = "Finance" -> PlantFinanceCompute
    [] t = "smr_plant" /\ s = "Performance" -> SMRPlantPerformanceCompute
    [] t = "smr_plant" /\ s = "Cost" -> SMRPlantCostCompute
    [] t = "smr_plant" /\ s = "Finance" -> SMRPlantFinanceCompute
    [] t = "co2h_plant" /\ s = "Performance" -> CO2HPlantPerformanceCompute
    [] t = "co2h_plant" /\ s = "Cost" -> CO2HPlantCostCompute
    [] t = "co2h_plant" /\ s = "Finance" -> CO2HPlantFinanceCompute
    [] t = "natural_geoh2" /\ s = "Performance" -> NaturalGeoH2PerformanceCompute
    [] t = "combined_geoh2" /\ s = "Performance" -> CombinedGeoH2PerformanceCompute
    [] s = "Cost" -> GeoH2CostCompute
    [] OTHER -> GeoH2FinanceCompute

(****************************** the stages *********************************)
\* The order in which one technology's stages are evaluated.
Chain == << "Performance", "Cost", "Finance" >>

\* stage s is the next one to evaluate in this run
Scheduled(s) == Len(evaluated) < Len(Chain) /\ Chain[Len(evaluated) + 1] = s

\* setup() of a stage of the methanol plant wrappers
PlantSetup(s) ==
  /\ tech = "plant"
  /\ nops < MaxOps
  /\ Len(heap) < MaxDicts
  /\ \E config_values \in PlantConfigs(s, conversion_tech) :
       LET n == NewDict(heap, PlantValues(s, conversion_tech, config_values))
           c == Declare(NoVars, PlantCalls(s, conversion_tech, n.heap[n.addr]))
       IN /\ heap' = n.heap
          /\ values' = [values EXCEPT ![s] = n.addr]
          /\ dec_table_inputs' = [dec_table_inputs EXCEPT ![s] = BaseTable(s)]
          /\ declared' = [declared EXCEPT ![s] = c.declared]
          /\ err' = [err EXCEPT ![s] = c.err]
          /\ applied' = [applied EXCEPT ![s] =
                           << TechDefaults(s, conversion_tech), config_values >>]
  /\ phase' = [phase EXCEPT ![s] = "setup"]
  /\ call' = [call EXCEPT ![s] = NoCall]
  /\ reads' = [t \in Stages |-> {}]
  /\ writes' = [t \in Stages |-> {}]
  /\ evaluated' = <<>>
  /\ nops' = nops + 1
  /\ UNCHANGED << supported_models, fn, inputs, outputs, outcome, tech, conversion_tech, dec_table >>

\* setup() of a stage of smr_methanol_plant.py / co2h_methanol_plant.py:
\* super().setup(), then the subclass's own declarations
MethanolSubclassSetup(s) ==
  LET n == NewDict(heap, BaseValues(s))
      c == Declare(NoVars, SubclassCalls(tech, s))
  IN /\ tech \in {"smr_plant", "co2h_plant"}
     /\ nops < MaxOps
     /\ Len(heap) < MaxDicts
     /\ heap' = n.heap
     /\ values' = [values EXCEPT ![s] = n.addr]
     /\ dec_table_inputs' = [dec_table_inputs EXCEPT ![s] = BaseTable(s)]
     /\ declared' = [declared EXCEPT ![s] = c.declared]
     /\ err' = [err EXCEPT ![s] = c.err]
     /\ applied' = [applied EXCEPT ![s] = <<>>]
     /\ phase' = [phase EXCEPT ![s] = "setup"]
     /\ call' = [call EXCEPT ![s] = NoCall]
     /\ reads' = [t \in Stages |-> {}]
     /\ writes' = [t \in Stages |-> {}]
     /\ evaluated' = <<>>
     /\ nops' = nops + 1
     /\ UNCHANGED << supported_models, fn, inputs, outputs, outcome, tech, conversion_tech, dec_table >>

\* setup() of a stage of the geologic-hydrogen classes
GeoH2Setup(s) ==
  LET c == Declare(NoVars, GeoH2Calls(tech, s))
  IN /\ tech \in {"natural_geoh2", "combined_geoh2"}
     /\ nops < MaxOps
     /\ declared' = [declared EXCEPT ![s] = c.declared]
     /\ err' = [err EXCEPT ![s] = c.err]
     /\ phase' = [phase EXCEPT ![s] = "setup"]
     /\ reads' = [t \in Stages |-> {}]
     /\ writes' = [t \in Stages |-> {}]
     /\ evaluated' = <<>>
     /\ nops' = nops + 1
     /\ UNCHANGED << supported_models, fn, inputs, outputs, outcome, tech, conversion_tech, heap, dec_table_inputs, values,
                     dec_table, call, applied >>

\* compute() of stage s, once every stage of the technology is set up
compute(s) ==
  /\ tech # "table"
  /\ \A t \in Stages : phase[t] = "setup" /\ err[t] = "none"
  /\ Scheduled(s)
  /\ reads' = [reads EXCEPT ![s] = ComputeAccess(tech, s, conversion_tech).reads]
  /\ writes' = [writes EXCEPT ![s] = ComputeAccess(tech, s, conversion_tech).writes]
  /\ evaluated' = Append(evaluated, s)
  /\ UNCHANGED << supported_models, fn, inputs, outputs, outcome, tech, conversion_tech, heap, dec_table_inputs, values,
                  dec_table, declared, err, phase, call, applied, nops >>

Next ==
  \E s \in Stages :
    \/ BaseSetup(s)
    \/ declare_from_table(s)
    \/ declare_from_table_new_dict(s)
    \/ PlantSetup(s)
    \/ MethanolSubclassSetup(s)
    \/ GeoH2Setup(s)
    \/ compute(s)

Spec == Init /\ [][Next]_vars

(***************************************************************************)
(*                        the numbers of compute()                         *)
(***************************************************************************)
(* A float is modelled by the exact rational n/d it stands for, in lowest  *)
(* terms with d > 0; rounding to 53 bits is not modelled.  d = 0 holds the *)
(* IEEE-754 values a numpy division by zero produces: 1/0 is inf, -1/0 is  *)
(* -inf and 0/0 is nan.                                                    *)
(***************************************************************************)
\* the largest numerator of an input, in halves
MaxQty == 2

Abs(i) == IF i < 0 THEN 0 - i ELSE i
Sgn(i) == IF i < 0 THEN 0 - 1 ELSE IF i > 0 THEN 1 ELSE 0

RECURSIVE GCD(_, _)
GCD(a, b) == IF b = 0 THEN a ELSE GCD(b, a % b)

Rat(n, d) ==
  IF d = 0 THEN [n |-> Sgn(n), d |-> 0]
  ELSE LET g == GCD(Abs(n), Abs(d))
       IN [n |-> Sgn(d) * (n \div g), d |-> Abs(d) \div g]

Whole(i) == [n |-> i, d |-> 1]
NaN == [n |-> 0, d |-> 0]
Inf == [n |-> 1, d |-> 0]
IsFinite(x) == x.d # 0

\* x * y
Mul(x, y) ==
  IF x.d = 0 \/ y.d = 0 THEN Rat(Sgn(x.n) * Sgn(y.n), 0)
  ELSE LET g1 == GCD(Abs(x.n), y.d)
           g2 == GCD(Abs(y.n), x.d)
       IN Rat((x.n \div g1) * (y.n \div g2), (x.d \div g2) * (y.d \div g1))

\* 1 / y for a numpy float: 1/0 is inf (with a RuntimeWarning, no exception)
Recip(y) ==
  IF y.n = 0 THEN (IF y.d = 0 THEN NaN ELSE Inf)
  ELSE IF y.n < 0 THEN [n |-> 0 - y.d, d |-> 0 - y.n]
  ELSE [n |-> y.d, d |-> y.n]

\* x / y
Div(x, y) == Mul(x, Recip(y))

\* x + y
Add(x, y) ==
  IF x.d = 0 /\ y.d = 0 THEN (IF x.n = y.n THEN x ELSE NaN)
  ELSE IF x.d = 0 THEN x
  ELSE IF y.d = 0 THEN y
  ELSE LET g == GCD(x.d, y.d)
       IN Rat(x.n * (y.d \div g) + y.n * (x.d \div g), (x.d \div g) * y.d)

\* -x and x - y
Neg(x) == [n |-> 0 - x.n, d |-> x.d]
Sub(x, y) == Add(x, Neg(y))

(***************************************************************************)
(* A numpy array of floats is modelled by its runs of equal elements,      *)
(* <<[len, val], ...>>, adjacent runs holding different values.            *)
(***************************************************************************)
RECURSIVE Canon(_)
Canon(a) ==
  IF Len(a) <= 1 THEN a
  ELSE LET r == Canon(Tail(a))
       IN IF Head(a).val = r[1].val
          THEN << [len |-> Head(a).len + r[1].len, val |-> r[1].val] >> \o Tail(r)
          ELSE << Head(a) >> \o r

\* an np.ones that is 1.0 in its first element only
UnitImpulse(n) ==
  << [len |-> 1, val |-> Whole(1)], [len |-> n - 1, val |-> Whole(0)] >>

\* np.ones(shape=(n,))
Ones(n) == << [len |-> n, val |-> Whole(1)] >>

\* a * x, element by element (x a scalar or a one-element array)
Scale(a, x) == Canon([i \in DOMAIN a |-> [len |-> a[i].len, val |-> Mul(a[i].val, x)]])

\* len(a)
RECURSIVE Length(_)
Length(a) == IF a = << >> THEN 0 ELSE Head(a).len + Length(Tail(a))

\* np.sum(a)
RECURSIVE Sum(_)
Sum(a) ==
  IF a = << >> THEN Whole(0)
  ELSE Add(Mul(Whole(Head(a).len), Head(a).val), Sum(Tail(a)))

\* a[h], hours counted from 1
RECURSIVE At(_, _)
At(a, h) == IF h <= Head(a).len THEN Head(a).val ELSE At(Tail(a), h - Head(a).len)

\* what a call leaves behind: the outputs written and how it ended
Ok(out) == [out |-> out, exc |-> "ok"]
Raise(e) == [out |-> << >>, exc |-> e]

(************************ Performance.compute ******************************)
\* the literal 8760 of the compute bodies: the divisor and the shape
HoursPerYear == 8760

\* MethanolPlantPerformanceModel.compute
MethanolPlantPerformanceModel_compute(ct, inp) ==
  IF ct = "smr"
  THEN LET meoh_kgph ==
             Scale(Ones(HoursPerYear),
                   Div(Mul(inp["plant_capacity_kgpy"], inp["capacity_factor"]),
                       Whole(HoursPerYear)))
       IN Ok(("methanol_production" :> meoh_kgph)
             @@ ("co2_consumption" :> Scale(meoh_kgph, inp["co2_consume_ratio"]))
             @@ ("h2o_consumption" :> Scale(meoh_kgph, inp["h2o_consume_ratio"]))
             @@ ("h2_consumption" :> Scale(meoh_kgph, inp["h2_consume_ratio"]))
             @@ ("co2e_emissions" :> Scale(meoh_kgph, inp["co2e_emit_ratio"]))
             @@ ("elec_consumption" :> Scale(meoh_kgph, inp["elec_consume_ratio"]))
             @@ ("meoh_atr_cat_consumption" :>
                   Mul(Sum(meoh_kgph), inp["meoh_atr_cat_consume_ratio"]))
             @@ ("meoh_syn_cat_consumption" :>
                   Mul(Sum(meoh_kgph), inp["meoh_syn_cat_consume_ratio"]))
             @@ ("lng_consumption" :> Scale(meoh_kgph, inp["lng_consume_ratio"]))
             @@ ("elec_production" :> Scale(meoh_kgph, inp["elec_produce_ratio"])))
  ELSE Ok(<< >>)

\* smr.Performance.run_performance_model: the same flows, returned as a dict
Performance_run_performance_model(inp) ==
  LET cap == inp["plant_capacity_kgpy"]
      cap_fac == inp["capacity_factor"]
      meoh_kgph == Scale(Ones(HoursPerYear),
                         Div(Mul(cap, cap_fac), Whole(HoursPerYear)))
  IN Ok(("methanol_production" :> meoh_kgph)
        @@ ("co2_consumption" :> Scale(meoh_kgph, inp["co2_consume_ratio"]))
        @@ ("h2o_consumption" :> Scale(meoh_kgph, inp["h2o_consume_ratio"]))
        @@ ("h2_consumption" :> Scale(meoh_kgph, inp["h2_consume_ratio"]))
        @@ ("co2e_emissions" :> Scale(meoh_kgph, inp["co2e_emit_ratio"]))
        @@ ("elec_consumption" :> Scale(meoh_kgph, inp["elec_consume_ratio"]))
        @@ ("meoh_atr_cat_consumption" :>
              Mul(Sum(meoh_kgph), inp["meoh_atr_cat_consume_ratio"]))
        @@ ("meoh_syn_cat_consumption" :>
              Mul(Sum(meoh_kgph), inp["meoh_syn_cat_consume_ratio"]))
        @@ ("lng_consumption" :> Scale(meoh_kgph, inp["lng_consume_ratio"]))
        @@ ("elec_production" :> Scale(meoh_kgph, inp["elec_produce_ratio"])))

\* SMRMethanolPlantPerformanceModel.compute
SMRMethanolPlantPerformanceModel_compute(inp) ==
  LET meoh_kgph ==
        Scale(Ones(HoursPerYear),
              Div(Mul(inp["plant_capacity_kgpy"], inp["capacity_factor"]),
                  Whole(HoursPerYear)))
  IN Ok(("methanol" :> meoh_kgph)
        @@ ("co2_consumption" :> Scale(meoh_kgph, inp["co2_consume_ratio"]))
        @@ ("h2o_consumption" :> Scale(meoh_kgph, inp["h2o_consume_ratio"]))
        @@ ("h2_consumption" :> Scale(meoh_kgph, inp["h2_consume_ratio"]))
        @@ ("co2e_emissions" :> Scale(meoh_kgph, inp["co2e_emit_ratio"]))
        @@ ("elec_consumption" :> Scale(meoh_kgph, inp["elec_consume_ratio"]))
        @@ ("meoh_atr_cat_consumption" :>
              Mul(Sum(meoh_kgph), inp["meoh_atr_cat_consume_ratio"]))
        @@ ("meoh_syn_cat_consumption" :>
              Mul(Sum(meoh_kgph), inp["meoh_syn_cat_consume_ratio"]))
        @@ ("ng_consumption" :> Scale(meoh_kgph, inp["ng_consume_ratio"]))
        @@ ("electricity" :> Scale(meoh_kgph, inp["elec_produce_ratio"])))

\* CO2HMethanolPlantPerformanceModel.compute
CO2HMethanolPlantPerformanceModel_compute(inp) ==
  LET meoh_kgph ==
        Scale(Ones(HoursPerYear),
              Div(Mul(inp["plant_capacity_kgpy"], inp["capacity_factor"]),
                  Whole(HoursPerYear)))
  IN Ok(("methanol" :> meoh_kgph)
        @@ ("co2e_emissions" :> Scale(meoh_kgph, inp["co2e_emit_ratio"]))
        @@ ("h2o_consumption" :> Scale(meoh_kgph, inp["h2o_consume_ratio"]))
        @@ ("meoh_syn_cat_consumption" :>
              Mul(Sum(meoh_kgph), inp["meoh_syn_cat_consume_ratio"]))
        @@ ("ng_consumption" :> Scale(meoh_kgph, inp["ng_consume_ratio"]))
        @@ ("carbon_dioxide" :> Scale(meoh_kgph, inp["co2_consume_ratio"]))
        @@ ("hydrogen" :> Scale(meoh_kgph, inp["h2_consume_ratio"]))
        @@ ("electricity" :> Scale(meoh_kgph, inp["elec_consume_ratio"])))

(**************************** Cost.compute *********************************)
\* a fixed cost charged on the kilograms produced instead of on the capacity
FixedCostOnProduction(inp, foc) ==
  Mul(Sum(IF "methanol" \in DOMAIN inp THEN inp["methanol"]
          ELSE inp["methanol_production"]),
      inp[foc])

\* foc_usd_y = inputs["plant_capacity_kgpy"] * inputs[foc]
foc_usd_y(inp, foc) == Mul(inp["plant_capacity_kgpy"], inp[foc])

\* openmdao.utils.units.convert_units(val, "MJ", "MBtu"): 1 Btu is 1055.05585 J
convert_units_MJ_MBtu(val) == Mul(val, Rat(100000, 105505585))

\* MethanolPlantCostModel.compute
MethanolPlantCostModel_compute(ct, inp) ==
  IF ct = "smr"
  THEN LET MMBTU_per_GJ == Rat(1055, 1000)
           LHV == Rat(201, 10000)
           toc_usd == Mul(inp["plant_capacity_kgpy"], inp["toc_kg_y"])
           voc_usd_y == Mul(Sum(inp["methanol_production"]), inp["voc_kg"])
       IN Ok(("CapEx" :> toc_usd)
             @@ ("OpEx" :> Add(foc_usd_y(inp, "foc_kg_y^2"), voc_usd_y))
             @@ ("Fixed_OpEx" :> foc_usd_y(inp, "foc_kg_y^2"))
             @@ ("Variable_OpEx" :> voc_usd_y)
             @@ ("meoh_syn_cat_cost" :>
                   Mul(inp["meoh_syn_cat_consumption"], inp["meoh_syn_cat_price"]))
             @@ ("meoh_atr_cat_cost" :>
                   Mul(inp["meoh_atr_cat_consumption"], inp["meoh_atr_cat_price"]))
             @@ ("lng_cost" :>
                   Mul(Mul(Mul(Sum(inp["lng_consumption"]), MMBTU_per_GJ), LHV),
                       inp["lng_price"]))
             @@ ("elec_revenue" :>
                   Mul(Sum(inp["elec_production"]), inp["elec_sales_price"])))
  ELSE Ok(<< >>)

\* smr.Cost.run_cost_model
Cost_run_cost_model(inp) ==
  LET MMBTU_per_GJ == Rat(1055, 1000)
      LHV == Rat(201, 10000)
      cap == inp["plant_capacity_kgpy"]
      meoh_kgph == inp["methanol_production"]
      toc_usd == Mul(cap, inp["toc_kg_y"])
      voc_usd_y == Mul(Sum(meoh_kgph), inp["voc_kg"])
      meoh_syn_cat_cost ==
        Mul(inp["meoh_syn_cat_consumption"], inp["meoh_syn_cat_price"])
      meoh_atr_cat_cost ==
        Mul(inp["meoh_atr_cat_consumption"], inp["meoh_atr_cat_price"])
      lng_cost == Mul(Mul(Mul(Sum(inp["lng_consumption"]), MMBTU_per_GJ), LHV),
                      inp["lng_price"])
      elec_rev == Mul(Sum(inp["elec_production"]), inp["elec_sales_price"])
  IN Ok(("CapEx" :> toc_usd)
        @@ ("OpEx" :> Add(foc_usd_y(inp, "foc_kg_y^2"), voc_usd_y))
        @@ ("Fixed_OpEx" :> foc_usd_y(inp, "foc_kg_y^2"))
        @@ ("Variable_OpEx" :> voc_usd_y)
        @@ ("meoh_syn_cat_cost" :> meoh_syn_cat_cost)
        @@ ("meoh_atr_cat_cost" :> meoh_atr_cat_cost)
        @@ ("lng_cost" :> lng_cost)
        @@ ("elec_revenue" :> elec_rev))

\* SMRMethanolPlantCostModel.compute; ppa_price is read from the plant options
SMRMethanolPlantCostModel_compute(inp) ==
  LET toc_usd == Mul(inp["plant_capacity_kgpy"], inp["toc_kg_y"])
      voc_usd_y == Mul(Sum(inp["methanol"]), inp["voc_kg"])
      ppa_price == inp["ppa_price"]
      lhv_mmbtu == convert_units_MJ_MBtu(inp["ng_lhv"])
  IN Ok(("CapEx" :> toc_usd)
        @@ ("OpEx" :> Add(foc_usd_y(inp, "foc_kg_y2"), voc_usd_y))
        @@ ("Fixed_OpEx" :> foc_usd_y(inp, "foc_kg_y2"))
        @@ ("Variable_OpEx" :> voc_usd_y)
        @@ ("meoh_syn_cat_cost" :>
              Mul(inp["meoh_syn_cat_consumption"], inp["meoh_syn_cat_price"]))
        @@ ("meoh_atr_cat_cost" :>
              Mul(inp["meoh_atr_cat_consumption"], inp["meoh_atr_cat_price"]))
        @@ ("ng_cost" :>
              Mul(Mul(Sum(inp["ng_consumption"]), lhv_mmbtu), inp["ng_price"]))
        @@ ("elec_revenue" :> Mul(Sum(inp["electricity"]), ppa_price)))

\* CO2HMethanolPlantCostModel.compute
CO2HMethanolPlantCostModel_compute(inp) ==
  LET toc_usd == Mul(inp["plant_capacity_kgpy"], inp["toc_kg_y"])
      voc_usd_y == Mul(Sum(inp["methanol"]), inp["voc_kg"])
      lhv_mmbtu == convert_units_MJ_MBtu(inp["ng_lhv"])
  IN Ok(("CapEx" :> toc_usd)
        @@ ("OpEx" :> Add(foc_usd_y(inp, "foc_kg_y2"), voc_usd_y))
        @@ ("Fixed_OpEx" :> foc_usd_y(inp, "foc_kg_y2"))
        @@ ("Variable_OpEx" :> voc_usd_y)
        @@ ("meoh_syn_cat_cost" :>
              Mul(inp["meoh_syn_cat_consumption"], inp["meoh_syn_cat_price"]))
        @@ ("ng_cost" :>
              Mul(Mul(Sum(inp["ng_consumption"]), lhv_mmbtu), inp["ng_price"]))
        @@ ("co2_cost" :> Mul(Sum(inp["carbon_dioxide"]), inp["co2_price"])))

(*************************** Finance.compute *******************************)
\* a call ended by an exception after it wrote some outputs
RaiseAfter(e, out) == [out |-> out, exc |-> e]

\* MethanolPlantFinanceModel.compute: the body does not look at conversion_tech;
\* inputs[name] of a name setup() did not declare raises KeyError
MethanolPlantFinanceModel_compute(inp) ==
  LET kgph == inp["methanol_production"]
      lcom_capex == Div(Mul(Mul(inp["CapEx"], inp["fixed_charge_rate"]),
                            inp["tasc_toc_multiplier"]), Sum(kgph))
      lcom_fopex == Div(inp["Fixed_OpEx"], Sum(kgph))
      first == ("LCOM_meoh_capex" :> lcom_capex) @@ ("LCOM_meoh_fopex" :> lcom_fopex)
  IN IF ~ ({"meoh_syn_cat_cost", "meoh_atr_cat_cost", "lng_cost", "elec_revenue"}
             \subseteq DOMAIN inp)
     THEN RaiseAfter("KeyError", first)
     ELSE LET lcom_meoh_syn_cat == Div(inp["meoh_syn_cat_cost"], Sum(kgph))
              lcom_meoh_atr_cat == Div(inp["meoh_atr_cat_cost"], Sum(kgph))
              lcom_vopex == Sub(Div(inp["Variable_OpEx"], Sum(kgph)),
                                Add(lcom_meoh_syn_cat, lcom_meoh_atr_cat))
              lcom_ng == Div(inp["lng_cost"], Sum(kgph))
              lcom_elec == Div(Neg(inp["elec_revenue"]), Sum(kgph))
              lcom_meoh == Add(Add(Add(Add(lcom_capex, lcom_fopex), lcom_vopex),
                                   lcom_meoh_syn_cat), lcom_meoh_atr_cat)
              lcom == Add(Add(lcom_meoh, lcom_ng), lcom_elec)
          IN Ok(first
                @@ ("LCOM_meoh_syn_cat" :> lcom_meoh_syn_cat)
                @@ ("LCOM_meoh_atr_cat" :> lcom_meoh_atr_cat)
                @@ ("LCOM_meoh_vopex" :> lcom_vopex)
                @@ ("LCOM_ng" :> lcom_ng)
                @@ ("LCOM_elec" :> lcom_elec)
                @@ ("LCOM_meoh" :> lcom_meoh)
                @@ ("LCOM" :> lcom))

\* smr.Finance.run_finance_model: inputs is a dict, the rate is read from
\* inputs["discount_rate"] before anything is written
Finance_run_finance_model(inp) ==
  IF "discount_rate" \notin DOMAIN inp THEN Raise("KeyError")
  ELSE
  LET toc == inp["CapEx"]
      fopex == inp["Fixed_OpEx"]
      vopex == inp["Variable_OpEx"]
      disc_rate == inp["discount_rate"]
      tasc_toc == inp["tasc_toc_multiplier"]
      kgph == inp["methanol_production"]
      lcom_capex == Div(Mul(Mul(toc, disc_rate), tasc_toc), Sum(kgph))
      lcom_fopex == Div(fopex, Sum(kgph))
      lcom_meoh_syn_cat == Div(inp["meoh_syn_cat_cost"], Sum(kgph))
      lcom_meoh_atr_cat == Div(inp["meoh_atr_cat_cost"], Sum(kgph))
      lcom_vopex == Sub(Div(vopex, Sum(kgph)),
                        Add(lcom_meoh_syn_cat, lcom_meoh_atr_cat))
      lcom_ng == Div(inp["lng_cost"], Sum(kgph))
      lcom_elec == Div(Neg(inp["elec_revenue"]), Sum(kgph))
      lcom_meoh == Add(Add(Add(Add(lcom_capex, lcom_fopex), lcom_vopex),
                           lcom_meoh_syn_cat), lcom_meoh_atr_cat)
      lcom == Add(Add(lcom_meoh, lcom_ng), lcom_elec)
  IN Ok(("LCOM_meoh_capex" :> lcom_capex)
        @@ ("LCOM_meoh_fopex" :> lcom_fopex)
        @@ ("LCOM_meoh_syn_cat" :> lcom_meoh_syn_cat)
        @@ ("LCOM_meoh_atr_cat" :> lcom_meoh_atr_cat)
        @@ ("LCOM_meoh_vopex" :> lcom_vopex)
        @@ ("LCOM_ng" :> lcom_ng)
        @@ ("LCOM_elec" :> lcom_elec)
        @@ ("LCOM_meoh" :> lcom_meoh)
        @@ ("LCOM" :> lcom))

\* SMRMethanolPlantFinanceModel.compute
SMRMethanolPlantFinanceModel_compute(inp) ==
  LET kgph == inp["methanol"]
      lcom_capex == Div(Mul(Mul(inp["CapEx"], inp["fixed_charge_rate"]),
                            inp["tasc_toc_multiplier"]), Sum(kgph))
      lcom_fopex == Div(inp["Fixed_OpEx"], Sum(kgph))
      lcom_meoh_syn_cat == Div(inp["meoh_syn_cat_cost"], Sum(kgph))
      lcom_meoh_atr_cat == Div(inp["meoh_atr_cat_cost"], Sum(kgph))
      lcom_vopex == Sub(Div(inp["Variable_OpEx"], Sum(kgph)),
                        Add(lcom_meoh_syn_cat, lcom_meoh_atr_cat))
      lcom_ng == Div(inp["ng_cost"], Sum(kgph))
      lcom_elec == Div(Neg(inp["elec_revenue"]), Sum(kgph))
      lcom_meoh == Add(Add(Add(Add(lcom_capex, lcom_fopex), lcom_vopex),
                           lcom_meoh_syn_cat), lcom_meoh_atr_cat)
      lcom == Add(Add(lcom_meoh, lcom_ng), lcom_elec)
  IN Ok(("LCOM_meoh_capex" :> lcom_capex)
        @@ ("LCOM_meoh_fopex" :> lcom_fopex)
        @@ ("LCOM_meoh_syn_cat" :> lcom_meoh_syn_cat)
        @@ ("LCOM_meoh_atr_cat" :> lcom_meoh_atr_cat)
        @@ ("LCOM_meoh_vopex" :> lcom_vopex)
        @@ ("LCOM_ng" :> lcom_ng)
        @@ ("LCOM_elec" :> lcom_elec)
        @@ ("LCOM_meoh" :> lcom_meoh)
        @@ ("LCOM" :> lcom))

\* CO2HMethanolPlantFinanceModel.compute
CO2HMethanolPlantFinanceModel_compute(inp) ==
  LET kgph == inp["methanol"]
      elec_cost == Mul(inp["LCOE"], Sum(inp["electricity"]))
      lcom_elec == Div(elec_cost, Sum(kgph))
      h2_cost == Mul(inp["LCOH"], Sum(inp["hydrogen"]))
      lcom_h2 == Div(h2_cost, Sum(kgph))
      lcom_capex == Div(Mul(Mul(inp["CapEx"], inp["fixed_charge_rate"]),
                            inp["tasc_toc_multiplier"]), Sum(kgph))
      lcom_fopex == Div(inp["Fixed_OpEx"], Sum(kgph))
      lcom_meoh_syn_cat == Div(inp["meoh_syn_cat_cost"], Sum(kgph))
      lcom_vopex == Sub(Div(inp["Variable_OpEx"], Sum(kgph)), lcom_meoh_syn_cat)
      lcom_ng == Div(inp["ng_cost"], Sum(kgph))
      lcom_co2 == Div(inp["co2_cost"], Sum(kgph))
      lcom_meoh == Add(Add(Add(lcom_capex, lcom_fopex), lcom_vopex),
                       lcom_meoh_syn_cat)
      lcom == Add(Add(Add(Add(lcom_meoh, lcom_ng), lcom_elec), lcom_h2), lcom_co2)
  IN Ok(("LCOM_elec" :> lcom_elec)
        @@ ("LCOM_h2" :> lcom_h2)
        @@ ("LCOM_meoh_capex" :> lcom_capex)
        @@ ("LCOM_meoh_fopex" :> lcom_fopex)
        @@ ("LCOM_meoh_syn_cat" :> lcom_meoh_syn_cat)
        @@ ("LCOM_meoh_vopex" :> lcom_vopex)
        @@ ("LCOM_ng" :> lcom_ng)
        @@ ("LCOM_co2" :> lcom_co2)
        @@ ("LCOM_meoh" :> lcom_meoh)
        @@ ("LCOM" :> lcom))

\* int(x): the integer part, toward zero
Trunc(x) == Sgn(x.n) * (Abs(x.n) \div x.d)

\* x ** k
RECURSIVE Pow(_, _)
Pow(x, k) == IF k = 0 THEN Whole(1) ELSE Mul(x, Pow(x, k - 1))

\* np.sum(dep_n / np.power(1 + atwacc, np.linspace(1, lifetime, lifetime)))
RECURSIVE Discounted(_, _, _)
Discounted(dep_n, base, k) ==
  IF k = 0 THEN Whole(0)
  ELSE Add(Discounted(dep_n, base, k - 1), Div(dep_n, Pow(base, k)))

\* the fixed charge rate of the geologic hydrogen Finance bodies, lifetime >= 1
FixedChargeRate(lifetime) ==
  LET etr == Rat(2574, 10000)
      atwacc == Rat(473, 10000)
      dep_n == Rat(1, lifetime)
      growth == Pow(Add(Whole(1), atwacc), lifetime)
      crf == Div(Mul(atwacc, growth), Sub(growth, Whole(1)))
      dep == Mul(crf, Discounted(dep_n, Add(Whole(1), atwacc), lifetime))
  IN Sub(Div(crf, Sub(Whole(1), etr)),
         Div(Mul(etr, dep), Sub(Whole(1), etr)))

\* a levelized cost that leaves the fixed costs out of the total
LevelizedWithoutFixed(capex, fopex, vopex, fcr, production) ==
  Add(Div(Mul(capex, fcr), production), vopex)

\* lcoh = (capex * fcr + fopex) / production + vopex
Levelized(capex, fopex, vopex, fcr, production) ==
  Add(Div(Add(Mul(capex, fcr), fopex), production), vopex)

\* NaturalGeoH2FinanceModel.compute; "1 / lifetime" divides Python ints, and
\* GeoH2CostFinanceBaseClass.setup declares no well_lifetime input
NaturalGeoH2FinanceModel_compute(inp) ==
  IF "well_lifetime" \notin DOMAIN inp THEN Raise("KeyError") ELSE
  LET lifetime == Trunc(inp["well_lifetime"])
  IN IF lifetime = 0 THEN Raise("ZeroDivisionError")
     ELSE LET fcr == FixedChargeRate(lifetime)
              capex == inp["CapEx"]
              fopex == inp["Fixed_OpEx"]
              vopex == inp["Variable_OpEx"]
              production == Sum(inp["hydrogen"])
          IN Ok(("LCOH" :> Levelized(capex, fopex, vopex, fcr, production))
                @@ ("LCOH_capex" :> Div(Mul(capex, fcr), production))
                @@ ("LCOH_fopex" :> Div(fopex, production))
                @@ ("LCOH_vopex" :> vopex))

\* CombinedGeoH2FinanceModel.compute: the same statements
CombinedGeoH2FinanceModel_compute(inp) ==
  IF "well_lifetime" \notin DOMAIN inp THEN Raise("KeyError") ELSE
  LET lifetime == Trunc(inp["well_lifetime"])
  IN IF lifetime = 0 THEN Raise("ZeroDivisionError")
     ELSE LET fcr == FixedChargeRate(lifetime)
              capex == inp["CapEx"]
              fopex == inp["Fixed_OpEx"]
              vopex == inp["Variable_OpEx"]
              production == Sum(inp["hydrogen"])
          IN Ok(("LCOH" :> Levelized(capex, fopex, vopex, fcr, production))
                @@ ("LCOH_capex" :> Div(Mul(capex, fcr), production))
                @@ ("LCOH_fopex" :> Div(fopex, production))
                @@ ("LCOH_vopex" :> vopex))

(************************ the base-class compute ***************************)
\* Methanol{Performance,Cost,Finance}BaseClass.compute, h2integrate and
\* greenheart: the body is one raise statement
MethanolBaseClass_compute(inp) == Raise("NotImplementedError")

\* GeoH2PerformanceBaseClas, GeoH2CostCostBaseClass, GeoH2CostFinanceBaseClass
\* define initialize and setup only: compute is the one inherited from
\* om.ExplicitComponent, whose body is "pass"
GeoH2BaseClass_compute(inp) == Ok(<< >>)

(************************** tools/inflation ********************************)
\* the index tables cover the years 1..MaxYear
MaxYear == 3

\* cpi.csv and cepci.csv are data files; a table gives one index per year
IndexTables ==
  {[y \in 1..MaxYear |-> Rat(4 + y, 2)],
   [y \in 1..MaxYear |-> Rat(2 + ((y * y) % 5), 3)]}

\* the ratio taken the wrong way round
InverseRatio(table, in_year, out_year) == Div(table[in_year], table[out_year])

\* the ratio taken against the first year of the table
RatioToFirstYear(table, in_year, out_year) == Div(table[out_year], table[1])

\* ratio = cpi_df.loc[out_year,'CPI']/cpi_df.loc[in_year,'CPI']
IndexRatio(table, in_year, out_year) == Div(table[out_year], table[in_year])

\* inflate_cpi(costs, in_year, out_year); .loc of an absent label raises
\* KeyError, a LookupError
inflate_cpi(costs, in_year, out_year, cpi_df) ==
  IF out_year \notin DOMAIN cpi_df \/ in_year \notin DOMAIN cpi_df
  THEN Raise("KeyError")
  ELSE Ok("return" :> Scale(costs, IndexRatio(cpi_df, in_year, out_year)))

\* inflate_cepci(costs, in_year, out_year): the same statements on cepci.csv
inflate_cepci(costs, in_year, out_year, cpi_df) ==
  IF out_year \notin DOMAIN cpi_df \/ in_year \notin DOMAIN cpi_df
  THEN Raise("KeyError")
  ELSE Ok("return" :> Scale(costs, IndexRatio(cpi_df, in_year, out_year)))

(************************* applying the functions **************************)
\* the scalar arguments are drawn from the halves 0, 1/2, ..., MaxQty
Pool == [i \in 1..(2 * MaxQty + 1) |-> Rat(i - 1, 2)]
PoolSet == {Pool[i] : i \in DOMAIN Pool}

\* the hourly arguments: a steady year, a half year and a year of no flow
Series ==
  << << [len |-> HoursPerYear, val |-> Whole(1)] >>,
     << [len |-> HoursPerYear \div 2, val |-> Whole(2)],
        [len |-> HoursPerYear \div 2, val |-> Whole(0)] >>,
     << [len |-> HoursPerYear, val |-> Whole(0)] >> >>

Range(seq) == {seq[i] : i \in DOMAIN seq}
IndexOf(seq, x) == CHOOSE i \in DOMAIN seq : seq[i] = x

\* one argument set: the names take the values of the pool in turn
Draw(names, shift, stride) ==
  [n \in Range(names) |->
     Pool[((IndexOf(names, n) * stride + shift) % Len(Pool)) + 1]]
DrawSeries(names, shift) ==
  [n \in Range(names) |-> Series[((IndexOf(names, n) + shift) % Len(Series)) + 1]]

\* the costs passed: a number (an array of one element) or an hourly array
CostArrays == {<< [len |-> 1, val |-> c] >> : c \in PoolSet} \cup Range(Series)

InflateInputs ==
  {[costs |-> c, in_year |-> y1, out_year |-> y2, table |-> t] :
     c \in CostArrays, y1 \in 0..(MaxYear + 1), y2 \in 0..(MaxYear + 1),
     t \in IndexTables}

(***************** converters/methanol/smr_methanol.py *********************)
\* greenheart smr.run_performance_model(lng, lng_meoh_ratio)
run_performance_model(lng, lng_meoh_ratio) == Div(lng, lng_meoh_ratio)

\* MethanolPerformanceModel.compute (greenheart): the ratio is config.lng_consumption;
\* "methanol" is declared with val=0.0, an array of one element
greenheart_MethanolPerformanceModel_compute(inp) ==
  LET methanol_production_kgpy ==
        run_performance_model(inp["lng"], inp["lng_consumption"])
  IN Ok("methanol" :> << [len |-> 1, val |-> methanol_production_kgpy] >>)

\* MethanolPerformanceModel.compute (h2integrate): the ratio is
\* inputs["lng_consumption"], the callee the method of the same name and arguments
h2integrate_MethanolPerformanceModel_compute(inp) ==
  LET methanol_production_kgpy ==
        run_performance_model(inp["lng"], inp["lng_consumption"])
  IN Ok("methanol" :> << [len |-> 1, val |-> methanol_production_kgpy] >>)

\* the SMR scenario: 1,615,618.59 kg of LNG a year at 1.61561859 kg/kg
SMRScenario ==
  ("lng" :> Rat(161561859, 100)) @@ ("lng_consumption" :> Rat(161561859, 100000000))

(***************** iron/Martin Ore: perf_model.main, cost_model.main *******)
\* the longest coefficient table drawn
MaxRows == 2

\* the five leading columns of coeffs_fp; main addresses them by position
\* (cols = [0,1,2,3,4]) and names two of them, 'Product' and 'Coeff'
LabelColumns == << "Product", "Name", "Type", "Coeff", "Unit" >>

\* np.where(s == x)[0]: the positions of x in s, ascending
np_where(s, x) == SelectSeq([i \in 1..Len(s) |-> i], LAMBDA i : s[i] = x)

\* the list as it was
list_kept(s, x) == s

\* list.remove(x): the list without the first x
list_remove(s, x) ==
  LET at == np_where(s, x)
  IN IF at = << >> THEN s
     ELSE [i \in 1..(Len(s) - 1) |-> IF i < at[1] THEN s[i] ELSE s[i + 1]]

\* df.iloc[rows, cols]
iloc(df, rows, cols) ==
  [columns |-> [j \in 1..Len(cols) |-> df.columns[cols[j]]],
   values |-> [i \in 1..Len(rows) |->
                 [j \in 1..Len(cols) |-> df.values[rows[i]][cols[j]]]]]

\* the main() of perf_model.py and of cost_model.py from the loaded coeff_df on
ore_model_main(prod, site, coeff_df) ==
  LET Product == np_where(coeff_df.columns, "Product")[1]
      rows == np_where([r \in 1..Len(coeff_df.values) |->
                          coeff_df.values[r][Product]], prod)
      col == np_where(coeff_df.columns, site)
      cols == << 1, 2, 3, 4, 5 >> \o col
      prod_df == iloc(coeff_df, rows, cols)
      width == Len(prod_df.columns)
      perf_cols == list_remove(prod_df.columns, "Coeff")
      col_idxs == list_remove([j \in 1..width |-> j], 4)
      constant == SelectSeq([i \in 1..Len(rows) |-> i],
                            LAMBDA i : prod_df.values[i][4] = "constant")
      perf_df == iloc(prod_df, constant, col_idxs)
  IN IF Len(rows) = 0
     THEN Raise("ValueError: Product \"" \o prod \o "\" not found in coeffs data!")
     ELSE IF Len(cols) = 0
     THEN Raise("ValueError: Site \"" \o site \o "\" not found in coeffs data!")
     ELSE Ok("return" :> [columns |-> perf_cols, values |-> perf_df.values])

perf_model_main(config) ==
  ore_model_main(config.product_selection, config.site, config.coeff_df)

cost_model_main(config) ==
  ore_model_main(config.product_selection, config.site, config.coeff_df)

\* the products and sites a table lists, and one of each that none lists
OreProducts == {"std_taconite_pellets", "drg_taconite_pellets"}
OreSites == << "Northshore", "United" >>
OtherProduct == "sinter"
OtherSite == "Tilden"

\* a row of the table: its labels, then one number per site column
OreRow(i, product, coeff, nsites) ==
  << product, "item " \o ToString(i), "capital", coeff, "t" >>
    \o [j \in 1..nsites |-> Whole(10 * i + j)]

CoeffTables ==
  UNION {{[columns |-> LabelColumns \o SubSeq(OreSites, 1, nsites),
           values |-> [i \in 1..n |-> OreRow(i, p[i], c[i], nsites)]] :
            p \in [1..n -> OreProducts], c \in [1..n -> {"constant", "lin"}]} :
         n \in 0..MaxRows, nsites \in 0..Len(OreSites)}

OreConfigs ==
  {[product_selection |-> p, site |-> s, coeff_df |-> t] :
     p \in OreProducts \cup {OtherProduct},
     s \in Range(OreSites) \cup {OtherSite}, t \in CoeffTables}

(***************** iron/Rosner: cost_model.main ****************************)
\* model_year = 2022 ("All economic data in 2022 $")
model_year == 2022

\* str(n) of a four-digit year, one character per element, and int(s)
DigitChars == << "0", "1", "2", "3", "4", "5", "6", "7", "8", "9" >>
Tens == << 1000, 100, 10, 1 >>
str(n) == [i \in 1..4 |-> DigitChars[((n \div Tens[i]) % 10) + 1]]
RECURSIVE int(_)
int(s) ==
  IF s = << >> THEN 0
  ELSE int(SubSeq(s, 1, Len(s) - 1)) * 10
         + (CHOOSE k \in 0..9 : DigitChars[k + 1] = s[Len(s)])

\* x ** e for a whole exponent e
Power(x, e) == Pow(x, e.n)

\* np.mean(values[start:end]), positions counted from 1; the mean of an empty
\* slice is nan
RECURSIVE SumSlice(_, _, _)
SumSlice(vals, start, end) ==
  IF end <= start THEN Whole(0)
  ELSE Add(vals[start], SumSlice(vals, start + 1, end))
np_mean(vals, start, end) ==
  IF end <= start THEN NaN
  ELSE Div(SumSlice(vals, start, end), Whole(end - start))

\* Series.unique(): the first occurrences, in order
unique(s) ==
  SelectSeq([i \in 1..Len(s) |-> IF \E j \in 1..(i - 1) : s[j] = s[i]
                                  THEN << >> ELSE << s[i] >>],
            LAMBDA x : x # << >>)

\* tech_coeffs.loc[tech_coeffs["Name"] == name, technology].values[0]
tech_value(tech_coeffs, name) ==
  SelectSeq(tech_coeffs, LAMBDA r : r.Name = name)[1].value

\* d[key] = value on a dict kept as its <<key, value>> pairs in insertion order
dict_set(d, key, value) ==
  IF \E i \in 1..Len(d) : d[i][1] = key
  THEN [i \in 1..Len(d) |-> IF d[i][1] = key THEN << key, value >> ELSE d[i]]
  ELSE Append(d, << key, value >>)

\* sum(d.values())
RECURSIVE dict_sum(_)
dict_sum(d) == IF d = << >> THEN Whole(0) ELSE Add(dict_sum(SubSeq(d, 1, Len(d) - 1)), d[Len(d)][2])

\* a capital item that grows with the capacity, whatever its exponent
capital_cost_linear(lin_coeff, plant_capacity_mtpy, exp_coeff) ==
  Mul(lin_coeff, plant_capacity_mtpy)

\* lin_coeff * plant_capacity_mtpy**exp_coeff
capital_cost(lin_coeff, plant_capacity_mtpy, exp_coeff) ==
  Mul(lin_coeff, Power(plant_capacity_mtpy, exp_coeff))

\* capital_costs of the branch that loads the coefficients (refit_coeffs false)
capital_costs(config) ==
  LET capital == SelectSeq(config.tech_coeffs, LAMBDA r : r.Type = "capital")
      names == unique([i \in 1..Len(capital) |-> capital[i].Name])
      item(n, c) ==
        SelectSeq(capital, LAMBDA r : r.Name = n /\ r.Coeff = c)[1].value
  IN [i \in 1..Len(names) |->
        << names[i][1],
           capital_cost(item(names[i][1], "lin"), config.plant_capacity_mtpy,
                        item(names[i][1], "exp")) >>]

\* the fixed O&M block: its locals and the fixed_costs dict.  A local that
\* later statements use is the argument of the operator that models them.
fixed_operating_costs(config, td_start_idx, td_end_idx) ==
  LET coeff(name) == tech_value(config.tech_coeffs, name)
      td(name) == config.top_down_coeffs[name]
      Block(labor_cost_annual_operation, labor_cost_maintenance,
            labor_cost_admin_support, property_tax_insurance) ==
        [labor_cost_annual_operation |-> labor_cost_annual_operation,
         labor_cost_maintenance |-> labor_cost_maintenance,
         labor_cost_admin_support |-> labor_cost_admin_support,
         property_tax_insurance |-> property_tax_insurance,
         total_fixed_operating_cost |->
           Add(Add(Add(labor_cost_annual_operation, labor_cost_maintenance),
                   labor_cost_admin_support), property_tax_insurance),
         fixed_costs |->
           dict_set(dict_set(dict_set(dict_set(<< >>,
             "labor_cost_annual_operation", labor_cost_annual_operation),
             "labor_cost_annual_operation", labor_cost_maintenance),
             "labor_cost_admin_support", labor_cost_admin_support),
             "property_tax_insurance", property_tax_insurance)]
      Labor(labor_cost_annual_operation, labor_cost_maintenance,
            property_tax_insurance) ==
        Block(labor_cost_annual_operation, labor_cost_maintenance,
              Mul(coeff("Administrative & Support Labor Cost"),
                  Add(labor_cost_annual_operation, labor_cost_maintenance)),
              property_tax_insurance)
      Plant(total_plant_cost) ==
        Labor(
          Mul(Mul(Mul(Mul(Whole(365),
            Add(Mul(Div(coeff("% Skilled Labor"), Whole(100)),
                    np_mean(td("Skilled Labor Cost"), td_start_idx, td_end_idx)),
                Mul(Div(coeff("% Unskilled Labor"), Whole(100)),
                    np_mean(td("Unskilled Labor Cost"), td_start_idx,
                            td_end_idx)))),
            coeff("Processing Steps")),
            config.Peters_coeffs_lin),
            Power(Mul(Div(config.plant_capacity_mtpy, Whole(365)), Whole(1000)),
                  config.Peters_coeffs_exp)),
          Mul(coeff("Maintenance Labor Cost"), total_plant_cost),
          Mul(coeff("Property Tax & Insurance"), total_plant_cost))
  IN Plant(dict_sum(capital_costs(config)))

\* the owner's costs block: land_cost and installation_cost
owners_costs(config, td_start_idx, fixed) ==
  LET coeff(name) == tech_value(config.tech_coeffs, name)
      td(name) == config.top_down_coeffs[name][td_start_idx]
      perf(name) == config.perf_coeffs[name]
      cap == config.plant_capacity_mtpy
      labor_cost_fivemonth ==
        Mul(Div(Whole(5), Whole(12)),
            Add(Add(fixed.labor_cost_annual_operation, fixed.labor_cost_maintenance),
                fixed.labor_cost_admin_support))
      non_fuel_consumables_onemonth ==
        Div(Mul(cap,
                Add(Add(Add(Add(Mul(perf("Raw Water Withdrawal"), td("Raw Water")),
                                Mul(perf("Lime"), td("Lime"))),
                            Mul(perf("Carbon (Coke)"), td("Carbon"))),
                        Mul(perf("Iron Ore"), td("Iron Ore Pellets"))),
                    Mul(perf("Reformer Catalyst"), td("Reformer Catalyst")))),
            Whole(12))
      fuel_consumables_60day_supply_cost ==
        Mul(Div(Mul(non_fuel_consumables_onemonth, Whole(12)), Whole(365)), Whole(60))
      Plant(total_plant_cost) ==
        [land_cost |-> Mul(coeff("Land"), cap),
         installation_cost |->
           Add(Add(Add(Add(labor_cost_fivemonth,
                           Mul(coeff("Preproduction"), total_plant_cost)),
                       fuel_consumables_60day_supply_cost),
                   Mul(coeff("Spare Parts"), total_plant_cost)),
               Mul(coeff("Other Owners's Costs"), total_plant_cost))]
  IN Plant(dict_sum(capital_costs(config)))

\* main(config) with refit_coeffs false; np.where(...)[0][0] of a year the
\* top-down table does not hold raises IndexError
Rosner_cost_model_main(config) ==
  LET years == config.top_down_coeffs["years"]
      start_year == config.operational_year
      last_year == years[Len(years)]
      end_year == IF start_year + config.plant_life < last_year
                  THEN start_year + config.plant_life ELSE last_year
      at_start == np_where(years, start_year)
      at_end == np_where(years, end_year)
      Table(capital, fixed_costs, owners) ==
        Ok("return" :>
             [columns |-> << "Tech", "Name", "Type", "Unit", config.site >>,
              values |->
                [i \in 1..Len(capital) |->
                   << config.technology, capital[i][1], "capital",
                      str(model_year) \o << " $" >>, capital[i][2] >>]
                \o [i \in 1..Len(fixed_costs) |->
                      << config.technology, fixed_costs[i][1], "fixed opex",
                         str(model_year) \o << " $ per year" >>,
                         fixed_costs[i][2] >>]
                \o << << config.technology, "Land cost", "other",
                         str(model_year) \o << " $ per year" >>,
                         owners.land_cost >>,
                      << config.technology, "Installation cost", "other",
                         str(model_year) \o << " $ per year" >>,
                         owners.installation_cost >> >>])
      Costs(capital, fixed) ==
        Table(capital, fixed.fixed_costs,
              owners_costs(config, at_start[1], fixed))
  IN IF at_start = << >> \/ at_end = << >> THEN Raise("IndexError")
     ELSE Costs(capital_costs(config),
                fixed_operating_costs(config, at_start[1], at_end[1]))

\* the files main loads: top_down_coeffs.csv by year, the technology's column
\* of the cost coefficients, perf_coeffs.csv, the Peters coefficients
TopDownYears == [i \in 1..MaxYear |-> 2020 + i]
TopDownCoeffs ==
  [n \in {"Raw Water", "Lime", "Carbon", "Iron Ore Pellets", "Reformer Catalyst",
          "Slag Disposal", "Natural Gas", "Electricity"} |->
     [i \in 1..MaxYear |-> Whole(1)]]
    @@ ("years" :> TopDownYears)
    @@ ("Skilled Labor Cost" :> [i \in 1..MaxYear |-> Whole(2 * i)])
    @@ ("Unskilled Labor Cost" :> [i \in 1..MaxYear |-> Whole(i)])

PerfCoeffs ==
  [n \in {"Raw Water Withdrawal", "Lime", "Carbon (Coke)", "Iron Ore",
          "Reformer Catalyst", "Slag", "Hydrogen", "Natural Gas", "Electricity"} |->
     Rat(1, 2)]

CapitalNames == << "Shaft Furnace", "Reformer" >>

CapitalRows(exps) ==
  IF exps = << >> THEN << >>
  ELSE LET pair(i) ==
             << [Name |-> CapitalNames[i], Type |-> "capital", Coeff |-> "lin",
                 value |-> Rat(i + 2, 2)],
                [Name |-> CapitalNames[i], Type |-> "capital", Coeff |-> "exp",
                 value |-> Whole(exps[i])] >>
       IN IF Len(exps) = 1 THEN pair(1) ELSE pair(1) \o pair(2)

OtherRows(percent) ==
  LET row(name, v) == [Name |-> name, Type |-> "other", Coeff |-> "constant", value |-> v]
  IN << row("% Skilled Labor", Whole(percent)),
        row("% Unskilled Labor", Whole(percent)),
        row("Processing Steps", Whole(2)),
        row("Maintenance Labor Cost", Rat(1, 2)),
        row("Administrative & Support Labor Cost", Rat(1, 2)),
        row("Property Tax & Insurance", Rat(1, 4)),
        row("Maintenance Materials", Whole(1)),
        row("Preproduction", Rat(1, 2)),
        row("Spare Parts", Rat(1, 2)),
        row("Land", Whole(2)),
        row("Other Owners's Costs", Rat(1, 4)) >>

RosnerCostConfigs ==
  {[technology |-> "h2_dri", site |-> "Model", operational_year |-> y,
    plant_life |-> life, lcoh |-> Whole(1), plant_capacity_mtpy |-> cap,
    tech_coeffs |-> CapitalRows(exps) \o OtherRows(percent),
    perf_coeffs |-> PerfCoeffs, top_down_coeffs |-> TopDownCoeffs,
    Peters_coeffs_lin |-> Whole(1), Peters_coeffs_exp |-> Whole(percent \div 50)] :
     y \in 2021..(2021 + MaxYear), life \in 0..1, cap \in PoolSet,
     exps \in UNION {[1..n -> 0..2] : n \in 0..Len(CapitalNames)},
     percent \in {0, 50}}

(***************** iron/Rosner: finance_model.main *************************)
\* cost_ds[name]: the value of the row of that Name; KeyError when there is none
cost_rows(costs_df, name) == SelectSeq(costs_df.values, LAMBDA r : r[2] = name)

\* the rows of one Type, np.where(cost_types == t)[0]
rows_of_type(costs_df, t) == SelectSeq(costs_df.values, LAMBDA r : r[3] = t)

\* one pass of the "Add capital items" / "Add fixed costs" loops: the year is
\* read back from the unit of the row and the cost inflated to cost_year
inflated_item(index, row, cost_year, table) ==
  LET source_year == int(SubSeq(row[4], 1, 4))
      source_year_cost == << [len |-> 1, val |-> row[5]] >>
      cost == IF index = "cepci"
              THEN inflate_cepci(source_year_cost, source_year, cost_year,
                                 table)
              ELSE inflate_cpi(source_year_cost, source_year, cost_year,
                               table)
  IN IF cost.exc # "ok" THEN cost
     ELSE Ok([name |-> row[2], cost |-> cost.out["return"][1].val])

\* the feedstocks and the co-product handed to ProFAST: name, usage, cost
Feedstocks(config) ==
  << << "Maintenance Materials", Whole(1), Rat(772, 100) >>,
     << "Raw Water Withdrawal", Rat(80367, 100000), Rat(59289, 100000) >>,
     << "Lime", Rat(1812, 100000), Rat(1221, 10) >>,
     << "Carbon", Rat(538, 10000), Rat(23697, 100) >>,
     << "Iron Ore", Rat(162927, 100000), config.lco_iron_ore_tonne >>,
     << "Hydrogen", Rat(6596, 100000), Mul(config.lcoh, Whole(1000)) >>,
     << "Natural Gas", Rat(71657, 100000), Whole(0) >>,
     << "Electricity", Rat(5502, 10000), Mul(config.lcoe, Whole(1000)) >>,
     << "Slag Disposal", Rat(17433, 100000), Rat(3763, 100) >> >>

\* main(config) up to pf.solve_price(): what the ProFAST object has been given
Rosner_finance_model_main(config) ==
  LET costs_df == config.cost.costs_df
      installation == cost_rows(costs_df, "Installation cost")
      land == cost_rows(costs_df, "Land cost")
      capital == rows_of_type(costs_df, "capital")
      fixed == rows_of_type(costs_df, "fixed opex")
      capital_items ==
        [i \in 1..Len(capital) |->
           inflated_item("cepci", capital[i], config.cost_year, config.cepci)]
      fixed_items ==
        [i \in 1..Len(fixed) |->
           inflated_item("cpi", fixed[i], config.cost_year, config.cpi)]
  IN IF installation = << >> \/ land = << >> THEN Raise("KeyError")
     ELSE IF \E i \in 1..Len(capital) : capital_items[i].exc # "ok"
     THEN Raise("KeyError")
     ELSE IF \E i \in 1..Len(fixed) : fixed_items[i].exc # "ok"
     THEN Raise("KeyError")
     ELSE Ok(("capacity" :> Div(config.plant_capacity_mtpy, Whole(365)))
             @@ ("analysis start year" :>
                   config.operational_year - config.installation_years)
             @@ ("operating life" :> config.plant_life)
             @@ ("installation months" :> 12 * config.installation_years)
             @@ ("installation cost" :> installation[1][5])
             @@ ("non depr assets" :> land[1][5])
             @@ ("end of proj sale non depr assets" :>
                   Mul(land[1][5],
                       Pow(Add(Whole(1), config.gen_inflation), config.plant_life)))
             @@ ("long term utilization" :> config.capacity_factor)
             @@ ("capital items" :>
                   [i \in 1..Len(capital) |-> capital_items[i].out])
             @@ ("fixed costs" :> [i \in 1..Len(fixed) |-> fixed_items[i].out])
             @@ ("feedstocks" :> Feedstocks(config))
             @@ ("coproducts" :> << << "Oxygen sales", Whole(395), Rat(3, 100) >> >>))

\* cepci.csv and cpi.csv by calendar year
YearTable(t) == [y \in {2020 + i : i \in 1..MaxYear} |-> t[y - 2020]]

\* the cost stage whose table the finance stage is given
RosnerFinanceCostConfigs ==
  {c \in RosnerCostConfigs : c.operational_year = 2021 /\ c.plant_life = 1}

RosnerFinanceConfigs ==
  {[cost |-> [costs_df |-> Rosner_cost_model_main(c).out["return"], config |-> c],
    site |-> c.site, cost_year |-> y, cepci |-> YearTable(t1), cpi |-> YearTable(t2),
    gen_inflation |-> Rat(1, 2), plant_life |-> c.plant_life,
    operational_year |-> c.operational_year, installation_years |-> 1,
    plant_capacity_mtpy |-> c.plant_capacity_mtpy, capacity_factor |-> Rat(1, 2),
    lcoe |-> Rat(1, 2), lcoh |-> c.lcoh, lco_iron_ore_tonne |-> Whole(2)] :
     c \in RosnerFinanceCostConfigs, y \in 2020..(2021 + MaxYear),
     t1 \in IndexTables, t2 \in IndexTables}

(***************** geologic hydrogen: Performance.compute ******************)
\* x < y on floats: false when either side is nan
Less(x, y) ==
  LET d == Sub(x, y)
  IN d # NaN /\ x # NaN /\ y # NaN /\ d.n < 0

\* Python's min(a, b): b when b < a, else a
Min(a, b) == IF Less(b, a) THEN b ELSE a

\* the core left to shrink below nothing
Unclipped(x) == x

\* np.maximum(0, x)
Maximum0(x) == IF x = NaN THEN NaN ELSE IF Less(x, Whole(0)) THEN Whole(0) ELSE x

\* A quantity c + k * 58.92981751: the literal of the wellhead concentration
\* fit is kept as a factor, k counting how many times it is taken
Plain(c) == [c |-> c, k |-> Whole(0)]
TimesCoefficient(k) == [c |-> Whole(0), k |-> k]
ScaleBy(q, r) == [c |-> Mul(q.c, r), k |-> Mul(q.k, r)]
Plus(q, r) == [c |-> Add(q.c, r.c), k |-> Add(q.k, r.k)]

\* prospectivity**2.460718753 where the power is a rational number: 0 and 1
\* are their own powers, a negative base gives nan
Power2_46(x) ==
  CASE x = NaN -> NaN
    [] x = Inf -> Inf
    [] x # NaN /\ x.n < 0 -> NaN
    [] x = Whole(0) -> Whole(0)
    [] x = Whole(1) -> Whole(1)

\* a concentration that ignores the prospectivity
wellhead_h2_conc_flat(prospectivity) == TimesCoefficient(Whole(1))

\* wh_h2_conc = 58.92981751 * prospectivity**2.460718753
wellhead_h2_conc(prospectivity) == TimesCoefficient(Power2_46(prospectivity))

\* an average flow that is the initial flow, whatever the reservoir holds
avg_wh_flow_unbounded(init_wh_flow, res_size, lifetime) == init_wh_flow

\* avg_wh_flow = min(init_wh_flow, res_size / lifetime * 1000 / 8760)
avg_wh_flow(init_wh_flow, res_size, lifetime) ==
  Min(init_wh_flow,
      Div(Mul(Div(res_size, Whole(lifetime)), Whole(1000)), Whole(8760)))

\* NaturalGeoH2PerformanceModel.compute
NaturalGeoH2PerformanceModel_compute(inp) ==
  IF {"site_prospectivity", "initial_wellhead_flow", "well_lifetime",
      "gas_reservoir_size"} \subseteq DOMAIN inp
  THEN LET wh_h2_conc == wellhead_h2_conc(inp["site_prospectivity"])
           lifetime == Trunc(inp["well_lifetime"])
           flow == avg_wh_flow(inp["initial_wellhead_flow"],
                               inp["gas_reservoir_size"], lifetime)
           h2_accum == ScaleBy(ScaleBy(wh_h2_conc, Rat(1, 100)), flow)
       IN Ok(("wellhead_h2_conc" :> wh_h2_conc)
             @@ ("lifetime_wellhead_flow" :> flow)
             @@ ("hydrogen_accumulated" :> h2_accum)
             @@ ("hydrogen" :> h2_accum))
  ELSE Raise("KeyError")

\* the shrinking reactive particle, year by year (np.linspace(1, lifetime, lifetime))
shrinking_particle(inp, lifetime) ==
  LET grain_size == inp["grain_size"]
      pen_rate == Mul(grain_size, inp["serp_rate"])
      height == Sub(inp["borehole_depth"], inp["caprock_depth"])
      rock_volume == Mul(Mul(height, inp["inj_prod_distance"]),
                         inp["reaction_zone_width"])
      n_grains == Div(rock_volume, Pow(grain_size, 3))
      M_Fe == Rat(558, 10)
      M_H2 == Whole(1)
      sec_elapsed == [y \in 1..lifetime |-> Mul(Mul(Whole(y), Whole(3600)), Whole(8760))]
      core_diameter ==
        [y \in 1..lifetime |->
           Maximum0(Sub(grain_size, Mul(Mul(Whole(2), pen_rate), sec_elapsed[y])))]
      reacted_volume ==
        [y \in 1..lifetime |->
           Mul(n_grains, Sub(Pow(grain_size, 3), Pow(core_diameter[y], 3)))]
      reacted_mass ==
        [y \in 1..lifetime |->
           Div(Mul(Mul(reacted_volume[y], inp["bulk_density"]), inp["iron_II_conc"]),
               Whole(100))]
  IN [rock_volume |-> rock_volume,
      core_diameter |-> core_diameter,
      reacted_volume |-> reacted_volume,
      h2_produced |-> [y \in 1..lifetime |-> Div(Mul(reacted_mass[y], M_H2), M_Fe)]]

\* CombinedGeoH2PerformanceModel.compute; h2_produced[-1] of an empty array
\* raises IndexError
CombinedGeoH2PerformanceModel_compute(inp) ==
  IF {"site_prospectivity", "initial_wellhead_flow", "well_lifetime",
      "gas_reservoir_size", "grain_size", "serp_rate", "borehole_depth",
      "caprock_depth", "inj_prod_distance", "reaction_zone_width",
      "bulk_density", "iron_II_conc"} \subseteq DOMAIN inp
  THEN LET wh_h2_conc == wellhead_h2_conc(inp["site_prospectivity"])
           lifetime == Trunc(inp["well_lifetime"])
           flow == avg_wh_flow(inp["initial_wellhead_flow"],
                               inp["gas_reservoir_size"], lifetime)
           h2_accum == ScaleBy(ScaleBy(wh_h2_conc, Rat(1, 100)), flow)
           h2_produced == shrinking_particle(inp, lifetime).h2_produced
           h2_prod_avg == Div(Div(h2_produced[lifetime], Whole(lifetime)),
                              Whole(8760))
       IN IF lifetime = 0 THEN Raise("IndexError")
          ELSE Ok(("wellhead_h2_conc" :> wh_h2_conc)
                  @@ ("lifetime_wellhead_flow" :> flow)
                  @@ ("hydrogen_accumulated" :> h2_accum)
                  @@ ("hydrogen_produced" :> h2_prod_avg)
                  @@ ("hydrogen" :> Plus(h2_accum, Plain(h2_prod_avg))))
  ELSE Raise("KeyError")

\* the inputs GeoH2PerformanceBaseClas.setup declares that compute reads; the
\* reservoir in tens of tonnes, the lifetime in years
WellLifetimes == {Whole(0), Whole(1), Rat(3, 2), Whole(2)}
GeoH2WellInputs(flows, sizes) ==
  {[site_prospectivity |-> p, initial_wellhead_flow |-> f, well_lifetime |-> l,
    gas_reservoir_size |-> Mul(Whole(10), r)] :
     p \in {Whole(0), Whole(1)}, f \in flows, l \in WellLifetimes, r \in sizes}

\* the rock around the borehole: the grain, the rate of serpentinization (none,
\* an eighth or the whole of the grain a year), the depths
GeoH2RockInputs ==
  {[grain_size |-> g, serp_rate |-> s, caprock_depth |-> Whole(1),
    borehole_depth |-> d, inj_prod_distance |-> Whole(2)] :
     g \in {Whole(0), Rat(1, 2), Whole(1)},
     s \in {Whole(0), Rat(1, 252288000), Rat(1, 31536000)},
     d \in {Whole(0), Whole(1), Whole(3)}}

\* the names compute reads that setup does not declare
GeoH2UndeclaredInputs ==
  {[reaction_zone_width |-> Whole(1), bulk_density |-> Whole(2), iron_II_conc |-> x] :
     x \in {Whole(0), Whole(50)}}

NaturalGeoH2PerformanceInputs == GeoH2WellInputs(PoolSet, PoolSet)

\* the combined model is applied to the declared inputs and to the declared
\* inputs together with the undeclared names
CombinedGeoH2PerformanceInputs ==
  LET wells == GeoH2WellInputs({Whole(0), Whole(1)}, {Whole(0), Whole(1)})
  IN {w @@ r : w \in wells,
               r \in {q \in GeoH2RockInputs :
                        q.grain_size = Whole(1) /\ q.borehole_depth = Whole(3)}}
       \cup {w @@ r @@ u :
               w \in wells, r \in GeoH2RockInputs, u \in GeoH2UndeclaredInputs}

\* the functions applied, and the inputs[...] their bodies subscript
PerformanceFns ==
  {"MethanolPlantPerformanceModel.compute", "Performance.run_performance_model",
   "SMRMethanolPlantPerformanceModel.compute",
   "CO2HMethanolPlantPerformanceModel.compute"}

CostFns ==
  {"MethanolPlantCostModel.compute", "Cost.run_cost_model",
   "SMRMethanolPlantCostModel.compute", "CO2HMethanolPlantCostModel.compute"}

MethanolFinanceFns ==
  {"MethanolPlantFinanceModel.compute", "Finance.run_finance_model",
   "SMRMethanolPlantFinanceModel.compute", "CO2HMethanolPlantFinanceModel.compute"}

GeoH2FinanceFns ==
  {"NaturalGeoH2FinanceModel.compute", "CombinedGeoH2FinanceModel.compute"}

FinanceFns == MethanolFinanceFns \cup GeoH2FinanceFns

InflateFns == {"inflate_cpi", "inflate_cepci"}

MethanolBaseFns ==
  {"h2integrate.MethanolPerformanceBaseClass.compute",
   "h2integrate.MethanolCostBaseClass.compute",
   "h2integrate.MethanolFinanceBaseClass.compute",
   "greenheart.MethanolPerformanceBaseClass.compute",
   "greenheart.MethanolCostBaseClass.compute",
   "greenheart.MethanolFinanceBaseClass.compute"}

GeoH2BaseFns ==
  {"GeoH2PerformanceBaseClas.compute", "GeoH2CostCostBaseClass.compute",
   "GeoH2CostFinanceBaseClass.compute"}

BaseFns == MethanolBaseFns \cup GeoH2BaseFns

OreFns == {"Martin Ore/perf_model.main", "Martin Ore/cost_model.main"}

GeoH2PerformanceFns ==
  {"NaturalGeoH2PerformanceModel.compute", "CombinedGeoH2PerformanceModel.compute"}

RosnerCostFns == {"Rosner/cost_model.main"}
RosnerFinanceFns == {"Rosner/finance_model.main"}

SMRMethanolFns ==
  {"greenheart.MethanolPerformanceModel.compute",
   "h2integrate.MethanolPerformanceModel.compute"}

Fns ==
  PerformanceFns \cup CostFns \cup FinanceFns \cup InflateFns \cup BaseFns
    \cup OreFns \cup SMRMethanolFns \cup RosnerCostFns
    \cup RosnerFinanceFns \cup GeoH2PerformanceFns

\* the wrappers that branch on config.conversion_tech
PlantFns == {"MethanolPlantPerformanceModel.compute",
             "MethanolPlantCostModel.compute",
             "MethanolPlantFinanceModel.compute"}

Scalars(f) ==
  CASE f \in {"MethanolPlantPerformanceModel.compute",
              "Performance.run_performance_model"} ->
         << "plant_capacity_kgpy", "capacity_factor", "co2_consume_ratio",
            "h2o_consume_ratio", "h2_consume_ratio", "co2e_emit_ratio",
            "elec_consume_ratio", "meoh_atr_cat_consume_ratio",
            "meoh_syn_cat_consume_ratio", "lng_consume_ratio",
            "elec_produce_ratio" >>
    [] f = "SMRMethanolPlantPerformanceModel.compute" ->
         << "plant_capacity_kgpy", "capacity_factor", "co2_consume_ratio",
            "h2o_consume_ratio", "h2_consume_ratio", "co2e_emit_ratio",
            "elec_consume_ratio", "meoh_atr_cat_consume_ratio",
            "meoh_syn_cat_consume_ratio", "ng_consume_ratio",
            "elec_produce_ratio" >>
    [] f = "CO2HMethanolPlantPerformanceModel.compute" ->
         << "plant_capacity_kgpy", "capacity_factor", "co2e_emit_ratio",
            "h2o_consume_ratio", "meoh_syn_cat_consume_ratio",
            "ng_consume_ratio", "co2_consume_ratio", "h2_consume_ratio",
            "elec_consume_ratio" >>

    [] f \in {"MethanolPlantCostModel.compute", "Cost.run_cost_model"} ->
         << "plant_capacity_kgpy", "toc_kg_y", "foc_kg_y^2", "voc_kg",
            "meoh_syn_cat_consumption", "meoh_syn_cat_price",
            "meoh_atr_cat_consumption", "meoh_atr_cat_price", "lng_price",
            "elec_sales_price" >>
    [] f = "SMRMethanolPlantCostModel.compute" ->
         << "plant_capacity_kgpy", "toc_kg_y", "foc_kg_y2", "voc_kg",
            "ppa_price", "ng_lhv", "meoh_syn_cat_consumption",
            "meoh_syn_cat_price", "meoh_atr_cat_consumption",
            "meoh_atr_cat_price", "ng_price" >>
    [] f = "CO2HMethanolPlantCostModel.compute" ->
         << "plant_capacity_kgpy", "toc_kg_y", "foc_kg_y2", "voc_kg", "ng_lhv",
            "meoh_syn_cat_consumption", "meoh_syn_cat_price", "ng_price",
            "co2_price" >>
    [] f \in {"MethanolPlantFinanceModel.compute", "Finance.run_finance_model"} ->
         << "CapEx", "fixed_charge_rate", "tasc_toc_multiplier", "Fixed_OpEx",
            "Variable_OpEx", "meoh_syn_cat_cost", "meoh_atr_cat_cost",
            "lng_cost", "elec_revenue", "OpEx" >>
    [] f = "SMRMethanolPlantFinanceModel.compute" ->
         << "CapEx", "fixed_charge_rate", "tasc_toc_multiplier", "Fixed_OpEx",
            "Variable_OpEx", "meoh_syn_cat_cost", "meoh_atr_cat_cost",
            "ng_cost", "elec_revenue" >>
    [] f = "CO2HMethanolPlantFinanceModel.compute" ->
         << "LCOE", "LCOH", "CapEx", "fixed_charge_rate", "tasc_toc_multiplier",
            "Fixed_OpEx", "Variable_OpEx", "meoh_syn_cat_cost", "ng_cost",
            "co2_cost" >>
    [] f \in GeoH2FinanceFns -> << "CapEx", "Fixed_OpEx", "Variable_OpEx" >>
    [] f \in {"h2integrate.MethanolPerformanceBaseClass.compute",
              "greenheart.MethanolPerformanceBaseClass.compute"} ->
         << "plant_capacity_kgpy", "capacity_factor" >>
    [] f \in {"h2integrate.MethanolCostBaseClass.compute",
              "greenheart.MethanolCostBaseClass.compute"} ->
         << "plant_capacity_kgpy", "toc_kg_y" >>
    [] f \in {"h2integrate.MethanolFinanceBaseClass.compute",
              "greenheart.MethanolFinanceBaseClass.compute",
              "GeoH2CostFinanceBaseClass.compute"} ->
         << "CapEx", "OpEx" >>
    [] f = "GeoH2PerformanceBaseClas.compute" ->
         << "well_lifetime", "site_prospectivity" >>
    [] f = "GeoH2CostCostBaseClass.compute" ->
         << "test_drill_cost", "permit_fees" >>
    [] f \in SMRMethanolFns -> << "lng", "lng_consumption" >>

Hourly(f) ==
  CASE f \in PerformanceFns \cup BaseFns \cup SMRMethanolFns -> << >>
    [] f \in {"MethanolPlantFinanceModel.compute", "Finance.run_finance_model"} ->
         << "methanol_production" >>
    [] f = "SMRMethanolPlantFinanceModel.compute" -> << "methanol" >>
    [] f = "CO2HMethanolPlantFinanceModel.compute" ->
         << "methanol", "electricity", "hydrogen" >>
    [] f \in GeoH2FinanceFns -> << "hydrogen" >>
    [] f \in {"MethanolPlantCostModel.compute", "Cost.run_cost_model"} ->
         << "methanol_production", "lng_consumption", "elec_production" >>
    [] f = "SMRMethanolPlantCostModel.compute" ->
         << "methanol", "ng_consumption", "electricity" >>
    [] f = "CO2HMethanolPlantCostModel.compute" ->
         << "methanol", "ng_consumption", "carbon_dioxide" >>

\* the arguments drawn apart from the pool: the well lifetime in years, and
\* the discount_rate key a caller of run_finance_model may or may not pass
Extras(f) ==
  IF f \in GeoH2FinanceFns
  THEN {<< >>} \cup {"well_lifetime" :> l : l \in {Whole(0), Whole(1), Rat(3, 2)}}
  ELSE IF f = "Finance.run_finance_model"
  THEN {<< >>} \cup {"discount_rate" :> r : r \in {Rat(1, 2), Whole(1)}}
  ELSE {<< >>}

\* the argument sets of the worked scenarios
Scenarios(f) == IF f \in SMRMethanolFns THEN {SMRScenario} ELSE {}

\* the argument sets a function is applied to
InputsOf(f) ==
  IF f \in InflateFns THEN InflateInputs ELSE
  IF f \in OreFns THEN OreConfigs ELSE
  IF f = "NaturalGeoH2PerformanceModel.compute"
  THEN NaturalGeoH2PerformanceInputs ELSE
  IF f = "CombinedGeoH2PerformanceModel.compute"
  THEN CombinedGeoH2PerformanceInputs ELSE
  IF f \in RosnerCostFns THEN RosnerCostConfigs ELSE
  IF f \in RosnerFinanceFns THEN RosnerFinanceConfigs ELSE
  {Draw(Scalars(f), shift, stride) @@ DrawSeries(Hourly(f), turn) @@ extra :
     shift \in 0..(Len(Pool) - 1), stride \in 1..MaxQty,
     turn \in (IF Hourly(f) = << >> THEN {0} ELSE 0..(Len(Series) - 1)),
     extra \in Extras(f)}
    \cup Scenarios(f)

\* MethanolPlantFinanceModel.setup declares the catalyst, gas and electricity
\* inputs only "if tech == 'smr'"
Declared(f, ct, inp) ==
  IF f = "MethanolPlantFinanceModel.compute" /\ ct # "smr"
  THEN [n \in DOMAIN inp \ {"meoh_syn_cat_cost", "meoh_atr_cat_cost",
                             "lng_cost", "elec_revenue"} |-> inp[n]]
  ELSE inp

\* what applying f to the arguments gives
Result(f, ct, inp) ==
  CASE f = "MethanolPlantPerformanceModel.compute" ->
         MethanolPlantPerformanceModel_compute(ct, inp)
    [] f = "Performance.run_performance_model" ->
         Performance_run_performance_model(inp)
    [] f = "SMRMethanolPlantPerformanceModel.compute" ->
         SMRMethanolPlantPerformanceModel_compute(inp)
    [] f = "CO2HMethanolPlantPerformanceModel.compute" ->
         CO2HMethanolPlantPerformanceModel_compute(inp)
    [] f = "MethanolPlantCostModel.compute" ->
         MethanolPlantCostModel_compute(ct, inp)
    [] f = "Cost.run_cost_model" -> Cost_run_cost_model(inp)
    [] f = "SMRMethanolPlantCostModel.compute" ->
         SMRMethanolPlantCostModel_compute(inp)
    [] f = "CO2HMethanolPlantCostModel.compute" ->
         CO2HMethanolPlantCostModel_compute(inp)
    [] f = "MethanolPlantFinanceModel.compute" ->
         MethanolPlantFinanceModel_compute(inp)
    [] f = "Finance.run_finance_model" -> Finance_run_finance_model(inp)
    [] f = "SMRMethanolPlantFinanceModel.compute" ->
         SMRMethanolPlantFinanceModel_compute(inp)
    [] f = "CO2HMethanolPlantFinanceModel.compute" ->
         CO2HMethanolPlantFinanceModel_compute(inp)
    [] f = "NaturalGeoH2FinanceModel.compute" ->
         NaturalGeoH2FinanceModel_compute(inp)
    [] f = "CombinedGeoH2FinanceModel.compute" ->
         CombinedGeoH2FinanceModel_compute(inp)
    [] f \in MethanolBaseFns -> MethanolBaseClass_compute(inp)
    [] f \in GeoH2BaseFns -> GeoH2BaseClass_compute(inp)
    [] f = "inflate_cpi" ->
         inflate_cpi(inp.costs, inp.in_year, inp.out_year, inp.table)
    [] f = "inflate_cepci" ->
         inflate_cepci(inp.costs, inp.in_year, inp.out_year, inp.table)
    [] f = "greenheart.MethanolPerformanceModel.compute" ->
         greenheart_MethanolPerformanceModel_compute(inp)
    [] f = "h2integrate.MethanolPerformanceModel.compute" ->
         h2integrate_MethanolPerformanceModel_compute(inp)
    [] f = "NaturalGeoH2PerformanceModel.compute" ->
         NaturalGeoH2PerformanceModel_compute(inp)
    [] f = "CombinedGeoH2PerformanceModel.compute" ->
         CombinedGeoH2PerformanceModel_compute(inp)
    [] f = "Rosner/cost_model.main" -> Rosner_cost_model_main(inp)
    [] f = "Rosner/finance_model.main" -> Rosner_finance_model_main(inp)
    [] f = "Martin Ore/perf_model.main" -> perf_model_main(inp)
    [] f = "Martin Ore/cost_model.main" -> cost_model_main(inp)

ComputeInit ==
  /\ supported_models = << >>
  /\ fn \in Fns
  /\ conversion_tech \in (IF fn \in PlantFns THEN ConversionTechs ELSE {"none"})
  /\ inputs \in {Declared(fn, conversion_tech, inp) : inp \in InputsOf(fn)}
  /\ outputs = << >>
  /\ outcome = "pending"
  /\ tech = "none"
  /\ heap = << >>
  /\ dec_table_inputs = [s \in Stages |-> << >>]
  /\ values = [s \in Stages |-> 0]
  /\ dec_table = [s \in Stages |-> << >>]
  /\ declared = [s \in Stages |-> << >>]
  /\ err = [s \in Stages |-> "none"]
  /\ phase = [s \in Stages |-> "new"]
  /\ call = [s \in Stages |-> NoCall]
  /\ applied = [s \in Stages |-> << >>]
  /\ reads = [s \in Stages |-> {}]
  /\ writes = [s \in Stages |-> {}]
  /\ evaluated = << >>
  /\ nops = 0

\* one call of a function: it runs to its end or to the exception it raises
Apply(fs) ==
  /\ fn \in fs
  /\ outcome = "pending"
  /\ LET r == Result(fn, conversion_tech, inputs)
     IN /\ outputs' = r.out
        /\ outcome' = r.exc
  /\ UNCHANGED << supported_models, fn, inputs, tech, conversion_tech, heap, dec_table_inputs,
                  values, dec_table, declared, err, phase, call, applied,
                  reads, writes, evaluated, nops >>

\* "from <package>.core.supported_models import supported_models": the module
\* body runs at the first import of a process and builds the dict
import_supported_models ==
  /\ supported_models = << >>
  /\ \E package \in Packages :
       supported_models' = supported_models_dict(package)
  /\ UNCHANGED << fn, inputs, outputs, outcome, tech, conversion_tech, heap,
                  dec_table_inputs, values, dec_table, declared, err, phase,
                  call, applied, reads, writes, evaluated, nops >>

PerformanceCompute == Apply(PerformanceFns)
CostCompute == Apply(CostFns)
FinanceCompute == Apply(FinanceFns)
Inflate == Apply(InflateFns)
BaseCompute == Apply(BaseFns)
OreMain == Apply(OreFns)
SMRMethanolCompute == Apply(SMRMethanolFns)
RosnerCostMain == Apply(RosnerCostFns)
GeoH2PerformanceCompute == Apply(GeoH2PerformanceFns)
RosnerFinanceMain == Apply(RosnerFinanceFns)

ComputeNext ==
  \/ PerformanceCompute
  \/ CostCompute
  \/ FinanceCompute
  \/ Inflate
  \/ BaseCompute
  \/ OreMain
  \/ SMRMethanolCompute
  \/ RosnerCostMain
  \/ RosnerFinanceMain
  \/ GeoH2PerformanceCompute
  \/ import_supported_models

ComputeSpec == ComputeInit /\ [][ComputeNext]_vars


(***************************************************************************)
(*                               the claims                                *)
(***************************************************************************)
\* a declare_from_table call on component s that ran to its end
Completed(s) == phase[s] = "declared" /\ err[s] = "none"

\* the keys of the mapping the call looked rows up in: those of the
\* component's values before the call and those of add_values
EffectiveKeys(s) ==
  DOMAIN call[s].values_before \cup DOMAIN call[s].add_before

\* C1: a row whose name is not a key of the effective override mapping is
\* declared with the scalar 0.0 when its len is 1 and with a zero vector of
\* exactly len elements otherwise.
C1_ZeroDefault ==
  \A s \in Stages :
    Completed(s) =>
      \A j \in 1..Len(declared[s]) :
        LET dec == dec_table[s][j]
        IN dec.name \notin EffectiveKeys(s) =>
             /\ dec.len = 1 => declared[s][j].val = Float("0.0")
             /\ dec.len # 1 =>
                  /\ declared[s][j].val.kind = "ndarray"
                  /\ declared[s][j].val.lit = "0.0"
                  /\ declared[s][j].val.len = dec.len

\* a completed call declared a scalar row and rows of lengths 3 and 8760
\* that no mapping names
C1_Witness ==
  \E s \in Stages :
    /\ Completed(s)
    /\ \A n \in {1, 3, 8760} :
         \E j \in 1..Len(declared[s]) :
           /\ dec_table[s][j].len = n
           /\ dec_table[s][j].name \notin EffectiveKeys(s)
           /\ declared[s][j].val.len = n

\* C2: after the call the component's values are its values before the call
\* overlaid with add_values (add_values wins), and a row whose name is a key
\* of that mapping is declared with the mapped value.
C2_OverrideWins ==
  \A s \in Stages :
    Completed(s) =>
      LET before == call[s].values_before
          given == call[s].add_before
          now == heap[values[s]]
      IN /\ DOMAIN now = DOMAIN before \cup DOMAIN given
         /\ \A k \in DOMAIN given : now[k] = given[k]
         /\ \A k \in DOMAIN before \ DOMAIN given : now[k] = before[k]
         /\ \A j \in 1..Len(declared[s]) :
              dec_table[s][j].name \in DOMAIN now =>
                declared[s][j].val = now[dec_table[s][j].name]

\* a completed call declared a row whose default add_values replaced by
\* another value, and a row only add_values names
C2_Witness ==
  \E s \in Stages :
    /\ Completed(s)
    /\ \E j \in 1..Len(declared[s]) :
         LET n == dec_table[s][j].name
         IN /\ n \in DOMAIN call[s].values_before
            /\ n \in DOMAIN call[s].add_before
            /\ call[s].add_before[n] # call[s].values_before[n]
            /\ declared[s][j].val = call[s].add_before[n]
    /\ \E j \in 1..Len(declared[s]) :
         LET n == dec_table[s][j].name
         IN /\ n \notin DOMAIN call[s].values_before
            /\ n \in DOMAIN call[s].add_before
            /\ declared[s][j].val # Float("0.0")

\* the rows a call was given: those of the base table after its header, then
\* those of the additional table after its header
GivenRows(s) ==
  LET b == call[s].base
      a == call[s].add
  IN [j \in 1..((Len(b) - 1) + (IF Len(a) > 0 THEN Len(a) - 1 ELSE 0)) |->
        IF j <= Len(b) - 1 THEN b[j + 1] ELSE a[j - (Len(b) - 1) + 1]]

\* C3: after the call there is exactly one slot per row of the base table
\* followed by the rows of the additional table, in that order, an "in" row
\* as an input and an "out" row as an output, with the row's unit and conn.
C3_OneSlotPerRow ==
  \A s \in Stages :
    Completed(s) =>
      /\ Len(declared[s]) = Len(GivenRows(s))
      /\ \A j \in 1..Len(GivenRows(s)) :
           LET dec == GivenRows(s)[j]
               slot == declared[s][j]
           IN /\ slot.name = dec.name
              /\ slot.units = dec.unit
              /\ slot.shape_by_conn = dec.conn
              /\ dec.type = "in" => slot.io = "input"
              /\ dec.type = "out" => slot.io = "output"

\* a completed call with an additional table: its last slot is the table's
\* last row, and a row shaped by connection was declared
C3_Witness ==
  \E s \in Stages :
    /\ Completed(s)
    /\ Len(call[s].add) > 1
    /\ Len(declared[s]) = Len(call[s].base) + Len(call[s].add) - 2
    /\ declared[s][Len(declared[s])].name = call[s].add[Len(call[s].add)].name
    /\ \E j \in 1..Len(declared[s]) :
         declared[s][j].shape_by_conn /\ declared[s][j].io = "output"

(************************ declared sets of a stage *************************)
\* A declared variable, whether a row of the stage's table or a direct
\* add_input/add_output of its setup.
RowVar(dec) ==
  [io |-> IF dec.type = "in" THEN "input" ELSE "output", name |-> dec.name,
   units |-> dec.unit, len |-> dec.len, conn |-> dec.conn]
SlotVar(slot) ==
  [io |-> slot.io, name |-> slot.name, units |-> slot.units,
   len |-> SlotLen(slot), conn |-> slot.shape_by_conn]

\* the base-class table of stage s plus the variables added to the component
DeclaredVars(s) ==
  (IF dec_table_inputs[s] = <<>> THEN {}
   ELSE {RowVar(dec_table_inputs[s][j]) : j \in 2..Len(dec_table_inputs[s])})
  \cup {SlotVar(declared[s][j]) : j \in 1..Len(declared[s])}

InputNames(s) == {v.name : v \in {x \in DeclaredVars(s) : x.io = "input"}}
OutputNames(s) == {v.name : v \in {x \in DeclaredVars(s) : x.io = "output"}}

\* the stages before and after s in the chain
Earlier(s) ==
  CASE s = "Performance" -> {}
    [] s = "Cost" -> {"Performance"}
    [] OTHER -> {"Performance", "Cost"}
Later(s) == Stages \ (Earlier(s) \cup {s})

\* C4: the declarations performed by one setup of a stage never declare the
\* same variable name twice (for the table-driven classes: the declarations
\* of the declare_from_table call made on the freshly set-up component).
C4_UniqueNames ==
  \A s \in Stages :
    (tech # "table" \/ call[s].declared_before = 0) =>
      \A i, j \in 1..Len(declared[s]) :
        i # j => declared[s][i].name # declared[s][j].name

\* C5: a declared input of a stage that some stage produces is an output of
\* an earlier stage of Performance -> Cost -> Finance, no stage declares or
\* reads an output of a later stage, and the stages are evaluated at most once
\* each, every stage after the stages whose outputs it takes.
C5_AcyclicChain ==
  LET In == [s \in Stages |-> InputNames(s)]
      Out == [s \in Stages |-> OutputNames(s)]
      OutOf(S) == UNION {Out[t] : t \in S}
  IN /\ \A s \in Stages :
          /\ (In[s] \cup reads[s]) \cap OutOf(Later(s)) = {}
          /\ (In[s] \cap OutOf(Stages)) \subseteq OutOf(Earlier(s))
     /\ \A i \in 1..Len(evaluated) :
          /\ \A j \in 1..Len(evaluated) : i # j => evaluated[i] # evaluated[j]
          /\ \A t \in Stages \ {evaluated[i]} :
               Out[t] \cap (In[evaluated[i]] \cup reads[evaluated[i]]) # {}
                 => \E j \in 1..(i - 1) : evaluated[j] = t

\* all three stages were evaluated, Finance taking CapEx from Cost and the
\* production signal from Performance, Cost taking it from Performance
C5_Witness ==
  /\ evaluated = Chain
  /\ "CapEx" \in InputNames("Finance") \cap OutputNames("Cost")
  /\ "methanol_production" \in
       InputNames("Finance") \cap InputNames("Cost") \cap OutputNames("Performance")
  /\ "methanol_production" \in reads["Cost"]

\* C6: a name one stage declares as an output and a later stage declares as
\* an input has the same unit tag and the same length on both sides (a side
\* shaped by its connection takes the length of the other).
C6_UnitsAndLengthPreserved ==
  \A s \in Stages :
    \A t \in Later(s) :
      \A o \in DeclaredVars(s) :
        \A i \in DeclaredVars(t) :
          (o.io = "output" /\ i.io = "input" /\ o.name = i.name) =>
            /\ o.units = i.units
            /\ (o.conn \/ i.conn \/ o.len = i.len)

\* C7: in the SMR and CO2-hydrogenation classes every name a compute reads
\* from inputs is a declared input of its stage and every name it writes to
\* outputs is a declared output of its stage.
C7_ComputeWithinDeclared ==
  tech \in {"smr_plant", "co2h_plant"} =>
    \A s \in Stages :
      /\ reads[s] \subseteq InputNames(s)
      /\ writes[s] \subseteq OutputNames(s)

\* C8: merging a later layer onto an earlier one gives the union of the keys,
\* the later layer's value on every key it has and the earlier layer's value
\* on every other key; in the methanol plant setup the config is the last
\* layer, over the technology defaults, over the base defaults.
C8_OverrideLast ==
  \A s \in Stages :
    /\ (tech = "table" /\ phase[s] = "declared") =>
         LET earlier == call[s].values_before
             later == call[s].add_before
             merged == heap[values[s]]
         IN /\ DOMAIN merged = DOMAIN earlier \cup DOMAIN later
            /\ \A k \in DOMAIN merged :
                 merged[k] = IF k \in DOMAIN later THEN later[k] ELSE earlier[k]
    /\ (tech = "plant" /\ phase[s] = "setup") =>
         LET base == BaseValues(s)
             defaults == applied[s][1]
             config_values == applied[s][2]
             merged == heap[values[s]]
         IN /\ DOMAIN merged =
                 DOMAIN base \cup DOMAIN defaults \cup DOMAIN config_values
            /\ \A k \in DOMAIN merged :
                 merged[k] = IF k \in DOMAIN config_values THEN config_values[k]
                             ELSE IF k \in DOMAIN defaults THEN defaults[k]
                             ELSE base[k]

\* {a: 1, b: 2} was merged onto a component and then {b: 3, c: 4}: its values
\* hold a: 1, b: 3, c: 4 and every key they held before
C8_Witness ==
  \E s \in Stages :
    /\ phase[s] = "declared"
    /\ call[s].add_before = OverrideBC
    /\ {"a", "b"} \subseteq DOMAIN call[s].values_before
    /\ call[s].values_before["a"] = Float("1.0")
    /\ call[s].values_before["b"] = Float("2.0")
    /\ heap[values[s]]["a"] = Float("1.0")
    /\ heap[values[s]]["b"] = Float("3.0")
    /\ heap[values[s]]["c"] = Float("4.0")
    /\ DOMAIN heap[values[s]] = DOMAIN BaseValues(s) \cup {"a", "b", "c"}

\* C9: merging is pure: no step changes a mapping that exists before it,
\* neither the values mapping a component holds nor a mapping passed to it as
\* add_values; the merged mapping is a new object.
C9_MergePure ==
  [][\A a \in 1..Len(heap) : heap'[a] = heap[a]]_vars

\* the base defaults of a stage overlaid, in order, with each mapping merged
\* into the component
RECURSIVE Overlay(_, _)
Overlay(d, layers) ==
  IF layers = <<>> THEN d ELSE Overlay(Update(d, Head(layers)), Tail(layers))

\* C10: two components never hold the same values object; a component's
\* values are its base defaults overlaid with the mappings merged through it
\* since its setup and nothing else, its declared defaults come from those
\* values, and right after setup() they are the base defaults.
C10_OwnValues ==
  /\ \A s, t \in Stages :
       (s # t /\ values[s] # 0 /\ values[t] # 0) => values[s] # values[t]
  /\ \A s \in Stages :
       /\ values[s] # 0 =>
            heap[values[s]] = Overlay(BaseValues(s), applied[s])
       /\ (phase[s] = "setup" /\ values[s] # 0 /\ tech # "plant") =>
            heap[values[s]] = BaseValues(s)
       /\ Completed(s) =>
            LET own == Overlay(BaseValues(s), applied[s])
            IN \A j \in 1..Len(declared[s]) :
                 declared[s][j].val = InitialValue(dec_table[s][j], own)

\* an override of plant_capacity_kgpy went through one component, and another
\* component set up beside it was declared with the base default
C10_Witness ==
  \E s, t \in Stages :
    /\ s # t
    /\ Len(applied[s]) > 0
    /\ values[s] # 0
    /\ "plant_capacity_kgpy" \in DOMAIN heap[values[s]]
    /\ heap[values[s]]["plant_capacity_kgpy"] = Float("50000000.0")
    /\ Completed(t)
    /\ applied[t] = <<>>
    /\ \E j \in 1..Len(declared[t]) :
         /\ declared[t][j].name = "plant_capacity_kgpy"
         /\ declared[t][j].val = Float("100000000.0")

(***************************************************************************)
(* C11: a methanol Performance compute that writes its outputs writes a    *)
(* production of HoursPerYear hours, every hour equal to                   *)
(* plant_capacity_kgpy * capacity_factor / 8760, so that the hours sum to  *)
(* plant_capacity_kgpy * capacity_factor; every hourly flow is that        *)
(* production times the flow's ratio input, hour by hour, and every annual *)
(* catalyst consumption is the summed production times its ratio.          *)
(***************************************************************************)
\* the output holding the production, by function
ProductionName(f) ==
  IF f \in {"SMRMethanolPlantPerformanceModel.compute",
            "CO2HMethanolPlantPerformanceModel.compute"}
  THEN "methanol" ELSE "methanol_production"

\* the hourly flows and the ratio of each
HourlyFlows ==
  {<< "co2_consumption", "co2_consume_ratio" >>,
   << "h2o_consumption", "h2o_consume_ratio" >>,
   << "h2_consumption", "h2_consume_ratio" >>,
   << "co2e_emissions", "co2e_emit_ratio" >>,
   << "elec_consumption", "elec_consume_ratio" >>,
   << "lng_consumption", "lng_consume_ratio" >>,
   << "elec_production", "elec_produce_ratio" >>,
   << "ng_consumption", "ng_consume_ratio" >>,
   << "carbon_dioxide", "co2_consume_ratio" >>,
   << "hydrogen", "h2_consume_ratio" >>}

\* "electricity" is the co-product of the SMR plant, a feedstock of the CO2H one
ElectricityRatio(f) ==
  IF f = "SMRMethanolPlantPerformanceModel.compute"
  THEN "elec_produce_ratio" ELSE "elec_consume_ratio"

AnnualFlows ==
  {<< "meoh_atr_cat_consumption", "meoh_atr_cat_consume_ratio" >>,
   << "meoh_syn_cat_consumption", "meoh_syn_cat_consume_ratio" >>}

ProductionInput(f) ==
  IF f \in {"MethanolPlantCostModel.compute", "Cost.run_cost_model"}
  THEN "methanol_production" ELSE "methanol"
FixedSlope(f) ==
  IF f \in {"MethanolPlantCostModel.compute", "Cost.run_cost_model"}
  THEN "foc_kg_y^2" ELSE "foc_kg_y2"

C12_CostSplit ==
  (fn \in CostFns /\ outcome = "ok" /\ outputs # << >>) =>
    LET cap == inputs["plant_capacity_kgpy"]
        total == Sum(inputs[ProductionInput(fn)])
    IN /\ outputs["CapEx"] = Mul(cap, inputs["toc_kg_y"])
       /\ outputs["Fixed_OpEx"] = Mul(cap, inputs[FixedSlope(fn)])
       /\ \A i \in DOMAIN Series :
            Result(fn, conversion_tech,
                   [inputs EXCEPT ![ProductionInput(fn)] = Series[i]]
                  ).out["Fixed_OpEx"] = outputs["Fixed_OpEx"]
       /\ outputs["Variable_OpEx"] = Mul(total, inputs["voc_kg"])
       /\ outputs["OpEx"] = Add(outputs["Fixed_OpEx"], outputs["Variable_OpEx"])

\* a plant with a fixed and a variable cost, both positive and different
C12_Witness ==
  /\ fn = "MethanolPlantCostModel.compute"
  /\ conversion_tech = "smr"
  /\ outcome = "ok"
  /\ "Fixed_OpEx" \in DOMAIN outputs
  /\ outputs["Fixed_OpEx"].n > 0
  /\ outputs["Variable_OpEx"].n > 0
  /\ outputs["Variable_OpEx"] # outputs["Fixed_OpEx"]
  /\ Len(inputs["methanol_production"]) = 2

(***************************************************************************)
(* C13: whenever a Finance compute returns for a production that does not  *)
(* sum to zero, the total levelized cost it reports (LCOM, LCOH) is the    *)
(* sum of all the shares it reports: every other output except the         *)
(* plant-only subtotal LCOM_meoh.                                          *)
(***************************************************************************)
\* the input holding the production of a Finance function
FinanceProduction(f) ==
  IF f \in GeoH2FinanceFns THEN "hydrogen"
  ELSE IF f \in {"MethanolPlantFinanceModel.compute", "Finance.run_finance_model"}
  THEN "methanol_production" ELSE "methanol"

TotalName(f) == IF f \in GeoH2FinanceFns THEN "LCOH" ELSE "LCOM"

RECURSIVE Total(_, _)
Total(out, names) ==
  IF names = {} THEN Whole(0)
  ELSE LET n == CHOOSE x \in names : TRUE
       IN Add(out[n], Total(out, names \ {n}))

PlantOnlyCost(rate) ==
  LET kg == Sum(inputs[FinanceProduction(fn)])
  IN /\ outcome = "ok"
     /\ outputs["LCOM_meoh"] =
          Div(Add(Add(Mul(Mul(inputs["CapEx"], inputs[rate]),
                          inputs["tasc_toc_multiplier"]),
                      inputs["Fixed_OpEx"]),
                  inputs["Variable_OpEx"]),
              kg)

\* LCOM_meoh and LCOM do not depend on the catalyst costs
CatalystNeutral ==
  \A cat \in {"meoh_syn_cat_cost", "meoh_atr_cat_cost"}, c \in PoolSet :
    LET r == Result(fn, conversion_tech, [inputs EXCEPT ![cat] = c])
    IN /\ r.exc = "ok"
       /\ r.out["LCOM_meoh"] = outputs["LCOM_meoh"]
       /\ r.out["LCOM"] = outputs["LCOM"]

C14_PlantOnlyCost ==
  (/\ fn \in {"MethanolPlantFinanceModel.compute", "Finance.run_finance_model",
               "SMRMethanolPlantFinanceModel.compute"}
   /\ conversion_tech \in {"smr", "none"}
   /\ outcome # "pending"
   /\ Sum(inputs[FinanceProduction(fn)]) # Whole(0)) =>
    /\ PlantOnlyCost("fixed_charge_rate")
    /\ CatalystNeutral

(***************************************************************************)
(* C15: a Finance compute given a production that sums to zero ends in a   *)
(* DomainError and writes no output; it never ends normally, and never     *)
(* writes inf or nan as a levelized cost.                                  *)
(***************************************************************************)
C15_ZeroProductionRaises ==
  (fn \in FinanceFns /\ outcome # "pending"
     /\ Sum(inputs[FinanceProduction(fn)]) = Whole(0)) =>
    /\ outcome = "DomainError"
    /\ outputs = << >>

(***************************************************************************)
(* C16: inflate_cpi and inflate_cepci return, for two years of the index   *)
(* table, the costs times index[out_year] / index[in_year], element by     *)
(* element; when either year is not in the table the call ends in a        *)
(* lookup error (KeyError) and returns nothing.                            *)
(***************************************************************************)
C16_InflateOrLookupError ==
  (fn \in InflateFns /\ outcome # "pending") =>
    IF inputs.in_year \in DOMAIN inputs.table /\ inputs.out_year \in DOMAIN inputs.table
    THEN /\ outcome = "ok"
         /\ Length(outputs["return"]) = Length(inputs.costs)
         /\ \A h \in {1, Length(inputs.costs)} :
              At(outputs["return"], h) =
                Div(Mul(At(inputs.costs, h), inputs.table[inputs.out_year]),
                    inputs.table[inputs.in_year])
    ELSE outcome = "KeyError" /\ outputs = << >>

\* a cost inflated between two different years of the table
C16_Witness ==
  /\ fn = "inflate_cepci"
  /\ outcome = "ok"
  /\ inputs.in_year # inputs.out_year
  /\ Len(inputs.costs) = 2
  /\ outputs["return"] # inputs.costs

\* a call for a year the table does not hold
C16_WitnessAbsent ==
  /\ fn = "inflate_cpi"
  /\ outcome = "KeyError"
  /\ inputs.in_year \in DOMAIN inputs.table
  /\ inputs.out_year \notin DOMAIN inputs.table

(***************************************************************************)
(* C17: for two years y1, y2 of the index table, inflating a cost from y1  *)
(* to y2 and the result from y2 back to y1 gives the cost again; inflating *)
(* from a year to itself changes nothing, and inflating from y1 to y2 and  *)
(* then to any y3 of the table gives what inflating from y1 to y3 gives.   *)
(***************************************************************************)
C17_RoundTrip ==
  (fn \in InflateFns /\ outcome = "ok") =>
    LET back == Result(fn, conversion_tech,
                       [costs |-> outputs["return"], in_year |-> inputs.out_year,
                        out_year |-> inputs.in_year, table |-> inputs.table])
    IN /\ back.exc = "ok"
       /\ back.out["return"] = inputs.costs
       /\ inputs.in_year = inputs.out_year => outputs["return"] = inputs.costs
       /\ \A y3 \in DOMAIN inputs.table :
            Result(fn, conversion_tech,
                   [costs |-> outputs["return"], in_year |-> inputs.out_year,
                    out_year |-> y3, table |-> inputs.table]).out["return"]
            = Result(fn, conversion_tech,
                     [inputs EXCEPT !.out_year = y3]).out["return"]

\* a cost that the first inflation changed
C17_Witness ==
  /\ fn = "inflate_cpi"
  /\ outcome = "ok"
  /\ inputs.in_year > inputs.out_year
  /\ outputs["return"] # inputs.costs
  /\ Len(inputs.costs) = 1
  /\ inputs.costs[1].val.n > 0

(***************************************************************************)
(* C18: compute called on a base (template) stage class - the methanol     *)
(* Performance, Cost and Finance base classes of both frameworks and the   *)
(* geologic hydrogen Performance, Cost and Finance base classes - raises   *)
(* NotImplementedError and writes no output.                               *)
(***************************************************************************)
C18_BaseComputeRaises ==
  (fn \in BaseFns /\ outcome # "pending") =>
    outcome = "NotImplementedError" /\ outputs = << >>

(***************************************************************************)
(* C19: with a conversion_tech other than "smr" the methanol plant wrapper *)
(* fails in setup or in compute: no stage is set up without an error and   *)
(* then evaluated to the end with a declared output never written, that    *)
(* is, left at its default value.                                          *)
(***************************************************************************)
\* stage s ran compute to the end and left a declared output unwritten
OutputsLeftAtDefault(s) ==
  /\ phase[s] = "setup"
  /\ err[s] = "none"
  /\ s \in Range(evaluated)
  /\ OutputNames(s) \ writes[s] # {}

C19_UnknownTechFails ==
  (tech = "plant" /\ conversion_tech # "smr") =>
    \A s \in Stages : ~ OutputsLeftAtDefault(s)

(***************************************************************************)
(* C20  Martin ore perf_model.main and cost_model.main: a requested        *)
(* product that no row of the coefficient table carries makes main fail    *)
(* with an error naming the product, a requested site that is no column    *)
(* of the table makes main fail with an error naming the site, and in      *)
(* neither case is a table returned.                                       *)
(***************************************************************************)
ProductListed ==
  \E r \in 1..Len(inputs.coeff_df.values) :
    inputs.coeff_df.values[r][1] = inputs.product_selection

SiteListed == inputs.site \in Range(inputs.coeff_df.columns)

NoTableReturned == outcome # "ok" /\ "return" \notin DOMAIN outputs

C20_AbsentProductRaises ==
  (fn \in OreFns /\ outcome # "pending" /\ ~ProductListed) =>
    /\ outcome = "ValueError: Product \"" \o inputs.product_selection
                   \o "\" not found in coeffs data!"
    /\ NoTableReturned

C20_AbsentProductWitness ==
  fn \in OreFns /\ outcome # "pending" /\ ~ProductListed /\ SiteListed
    /\ Len(inputs.coeff_df.values) > 0

C20_AbsentSiteRaises ==
  (fn \in OreFns /\ outcome # "pending" /\ ProductListed /\ ~SiteListed) =>
    /\ outcome = "ValueError: Site \"" \o inputs.site
                   \o "\" not found in coeffs data!"
    /\ NoTableReturned

C20_AbsentRowOrSiteRaises == C20_AbsentProductRaises /\ C20_AbsentSiteRaises

(***************************************************************************)
(* C21  SMR methanol scenario: with lng = 1,615,618.59 kg/yr and a         *)
(* consumption ratio of 1.61561859 kg/kg the methanol output of the        *)
(* Performance stage is a series of 8760 hourly values, each equal to      *)
(* lng / ratio / 8760.                                                      *)
(***************************************************************************)
C21_ScenarioHourlySeries ==
  (fn \in SMRMethanolFns /\ outcome = "ok" /\ inputs = SMRScenario) =>
    LET hourly == Div(Div(inputs["lng"], inputs["lng_consumption"]),
                      Whole(HoursPerYear))
    IN /\ Length(outputs["methanol"]) = HoursPerYear
       /\ \A h \in {1, HoursPerYear \div 2, HoursPerYear} :
            At(outputs["methanol"], h) = hourly

\* what the code gives for the scenario: the yearly mass, once
C21_AnnualScalar ==
  (fn \in SMRMethanolFns /\ outcome = "ok" /\ inputs = SMRScenario) =>
    outputs["methanol"] = << [len |-> 1, val |-> Whole(1000000)] >>

(***************************************************************************)
(* C22  Cost scaling law: a capital line item of the Rosner cost model is  *)
(* coefficient * capacity ** exponent in the dollars of the model year,    *)
(* and the capital item the finance model builds from it is that cost      *)
(* times index[cost_year] / index[model year].                             *)
(***************************************************************************)
\* the capital items of the coefficient table: name, coefficient, exponent
CapitalLaw(config) ==
  LET n == Cardinality({i \in 1..Len(config.tech_coeffs) :
                          config.tech_coeffs[i].Type = "capital"}) \div 2
  IN [i \in 1..n |->
        [name |-> config.tech_coeffs[2 * i - 1].Name,
         cost |-> Mul(config.tech_coeffs[2 * i - 1].value,
                      Pow(config.plant_capacity_mtpy,
                          config.tech_coeffs[2 * i].value.n))]]

FixedBlock(config) ==
  LET years == config.top_down_coeffs["years"]
      last_year == years[Len(years)]
      end_year == IF config.operational_year + config.plant_life < last_year
                  THEN config.operational_year + config.plant_life ELSE last_year
  IN fixed_operating_costs(config, np_where(years, config.operational_year)[1],
                           np_where(years, end_year)[1])

FixedOpexRows == rows_of_type(outputs["return"], "fixed opex")

C29_FixedOpexRows ==
  (fn \in RosnerCostFns /\ outcome = "ok") =>
    LET fixed == FixedBlock(inputs)
        emitted == {FixedOpexRows[i][5] : i \in 1..Len(FixedOpexRows)}
    IN /\ Len(FixedOpexRows) = 4
       /\ {fixed.labor_cost_annual_operation, fixed.labor_cost_maintenance,
           fixed.labor_cost_admin_support, fixed.property_tax_insurance}
            \subseteq emitted
       /\ dict_sum([i \in 1..Len(FixedOpexRows) |->
                     << FixedOpexRows[i][2], FixedOpexRows[i][5] >>])
            = fixed.total_fixed_operating_cost

\* what the code emits: three rows, the first named for the operation labor
\* and holding the maintenance labor
C29_ThreeRows ==
  (fn \in RosnerCostFns /\ outcome = "ok") =>
    LET fixed == FixedBlock(inputs)
    IN /\ Len(FixedOpexRows) = 3
       /\ FixedOpexRows[1][2] = "labor_cost_annual_operation"
       /\ FixedOpexRows[1][5] = fixed.labor_cost_maintenance
       /\ FixedOpexRows[2][5] = fixed.labor_cost_admin_support
       /\ FixedOpexRows[3][5] = fixed.property_tax_insurance

LifetimeFlowLaw(years) ==
  LET flow == outputs["lifetime_wellhead_flow"]
      reservoir_kg == Mul(inputs["gas_reservoir_size"], Whole(1000))
  IN /\ flow = Min(inputs["initial_wellhead_flow"],
                   Div(Div(reservoir_kg, years), Whole(8760)))
     /\ ~Less(inputs["initial_wellhead_flow"], flow)
     /\ ~Less(reservoir_kg, Mul(Mul(flow, Whole(8760)), years))
     /\ outputs["hydrogen_accumulated"] =
          ScaleBy(ScaleBy(outputs["wellhead_h2_conc"], Rat(1, 100)), flow)

C27_LifetimeFlow ==
  (fn \in GeoH2PerformanceFns /\ outcome = "ok"
     /\ ~Less(inputs["well_lifetime"], Whole(1))) =>
    LifetimeFlowLaw(inputs["well_lifetime"])

\* the same law for a lifetime of whole years
C27_WholeYears ==
  (fn \in GeoH2PerformanceFns /\ outcome = "ok"
     /\ ~Less(inputs["well_lifetime"], Whole(1)) /\ inputs["well_lifetime"].d = 1) =>
    LifetimeFlowLaw(inputs["well_lifetime"])

(***************************************************************************)
(* C28  Combined geologic hydrogen, shrinking particle, for grain_size > 0,*)
(* serp_rate >= 0 and borehole_depth >= caprock_depth: in every year of    *)
(* the well lifetime the unreacted core diameter lies in [0, grain_size]   *)
(* and does not grow from one year to the next, the reacted volume does    *)
(* not shrink and does not exceed the rock volume, and hydrogen is         *)
(* hydrogen_accumulated + hydrogen_produced with hydrogen_produced >= 0.   *)
(***************************************************************************)
Leq(x, y) == x # NaN /\ y # NaN /\ ~Less(y, x)

C24_FullTriples ==
  supported_models # << >> =>
    LET ks == dict_keys(supported_models)
    IN /\ \E package \in Packages :
            supported_models = supported_models_dict(package)
       /\ \A technology \in technologies(supported_models) :
            (\E suffix \in StageSuffixes : HasKey(ks, technology, suffix))
              => \A suffix \in StageSuffixes : HasKey(ks, technology, suffix)

(***************************************************************************)
(* C24 (amended): once imported, the registry is a dict with string keys,  *)
(* one model per key, and stays the table that was built at import; a      *)
(* technology with the key <tech>_financial has all three keys, and one    *)
(* with <tech>_cost has <tech>_performance.                                *)
(***************************************************************************)
C24_StagesInOrder ==
  supported_models # << >> =>
    LET ks == dict_keys(supported_models)
    IN /\ \E package \in Packages :
            supported_models = supported_models_dict(package)
       /\ IsDict(supported_models)
       /\ \A technology \in technologies(supported_models) :
            /\ HasKey(ks, technology, "_financial")
                 => HasKey(ks, technology, "_cost")
            /\ HasKey(ks, technology, "_cost")
                 => HasKey(ks, technology, "_performance")

\* the registry imported and a model it names run to its end: a technology
\* with its three stages beside one registered without a financial model
C24_Witness ==
  LET ks == dict_keys(supported_models)
  IN /\ supported_models = supported_models_dict("h2integrate")
     /\ fn = "NaturalGeoH2PerformanceModel.compute"
     /\ outcome = "ok"
     /\ \A suffix \in StageSuffixes : HasKey(ks, "natural_geoh2", suffix)
     /\ HasKey(ks, "wind_plant", "_cost")
     /\ ~ HasKey(ks, "wind_plant", "_financial")

(***************************************************************************)
(* C25: whatever conversion_tech is, every name MethanolPlantFinanceModel  *)
(* .compute reads from inputs is an input its setup declared and every     *)
(* name it writes to outputs is an output its setup declared.              *)
(***************************************************************************)
C25_FinanceWithinDeclared ==
  (tech = "plant" /\ "Finance" \in Range(evaluated)) =>
    /\ reads["Finance"] \subseteq InputNames("Finance")
    /\ writes["Finance"] \subseteq OutputNames("Finance")


(***************************************************************************)
(* C26: when a stage is declared with the SMR additions, every key of the  *)
(* SMR values names a row of the table that was declared, the base-class   *)
(* table of the stage followed by the SMR table, and the variable of that  *)
(* name was given the SMR value.                                           *)
(***************************************************************************)
C26_SMROverridesDeclared ==
  \A s \in Stages :
    (/\ tech = "table"
     /\ phase[s] = "declared"
     /\ err[s] = "none"
     /\ call[s].declared_before = 0
     /\ call[s].base = BaseTable(s)
     /\ call[s].add = SMRTable(s)
     /\ call[s].add_before = SMRValues(s)) =>
      \A k \in DOMAIN SMRValues(s) :
        /\ k \in {dec_table[s][j].name : j \in 1..Len(dec_table[s])}
        /\ \E j \in 1..Len(declared[s]) :
             /\ declared[s][j].name = k
             /\ declared[s][j].val = SMRValues(s)[k]


(***************************************************************************)
(* C30: for a product and a site the coefficient table lists, the table    *)
(* the ore performance and cost models return has the label columns        *)
(* without Coeff, then the column of the site; its rows are the rows of    *)
(* the coefficient table whose Product is the requested one and whose      *)
(* Coeff is 'constant', in the table's order, each with the values the     *)
(* coefficient table holds in those columns.                               *)
(***************************************************************************)
ConstantRowsOf(product, table) ==
  SelectSeq(table.values,
            LAMBDA row : row[1] = product /\ row[4] = "constant")

SiteColumn(site, table) ==
  CHOOSE j \in 1..Len(table.columns) : table.columns[j] = site

C30_ConstantRowsOfProduct ==
  (fn \in OreFns /\ outcome # "pending" /\ ProductListed /\ SiteListed) =>
    LET kept == ConstantRowsOf(inputs.product_selection, inputs.coeff_df)
        at == SiteColumn(inputs.site, inputs.coeff_df)
    IN /\ outcome = "ok"
       /\ outputs["return"].columns
            = << "Product", "Name", "Type", "Unit", inputs.site >>
       /\ Len(outputs["return"].values) = Len(kept)
       /\ \A i \in 1..Len(kept) :
            outputs["return"].values[i]
              = << kept[i][1], kept[i][2], kept[i][3], kept[i][5],
                   kept[i][at] >>

\* a table of two rows, one of them kept, asked for its second site
C30_Witness ==
  /\ fn \in OreFns /\ outcome = "ok" /\ ProductListed /\ SiteListed
  /\ Len(inputs.coeff_df.values) = 2
  /\ inputs.site = OreSites[2]
  /\ Len(outputs["return"].values) = 1
  /\ outputs["return"].values[1][2] = inputs.coeff_df.values[2][2]

\* both rows kept, in the table's order
C30_WitnessOrder ==
  /\ fn \in OreFns /\ outcome = "ok" /\ ProductListed /\ SiteListed
  /\ Len(outputs["return"].values) = 2
  /\ outputs["return"].values[1][2] = inputs.coeff_df.values[1][2]

====
